---- MODULE Spec2Model ----
(***************************************************************************)
(* Model of structure_generator_script(4).py: the StructureGenerator that  *)
(* creates a fixed directory tree under Path(project_name) and then writes *)
(* the files of nine groups, each group building its {path: content} dict  *)
(* before writing it.                                                      *)
(*                                                                         *)
(* A Python str is a sequence of tokens in which "/" is a token of its own *)
(* ("docs/api" is <<"docs", "/", "api">>, "" is <<>>).  A pathlib.Path is  *)
(* the sequence of its parts, each part a str; the current working         *)
(* directory is the empty path <<>>.  The content a producer returns is    *)
(* opaque: <<producer>> or <<producer, service_name>>; "" is <<>>.         *)
(***************************************************************************)
EXTENDS Integers, Sequences, FiniteSets, TLC

VARIABLES
    argv,         \* sys.argv[1:] of the invocation
    project_name, \* StructureGenerator.project_name
    base_path,    \* StructureGenerator.base_path
    pc,           \* position of the process
    dirs,         \* filesystem: the set of existing directories
    files,        \* filesystem: path -> content of the existing regular files
    denied,       \* environment: paths at which creating or writing fails
    faultKind,    \* environment: "open" (open raises) or "write" (f.write raises)
    dirIdx,       \* _create_directories: index of the next directory of the loop
    unit,         \* create_structure: index in Units of the group being built
    pending,      \* the dict of the current group, in insertion order
    k,            \* index in pending of the next item of the write loop
    wf,           \* arguments and file_path of the _write_file call in progress
    kont,         \* where _write_file returns to: "loop" or "caller"
    exc,          \* the exception being propagated, "" when none
    stdout,       \* what the process has printed
    exitStatus,   \* -1 while running, then the exit status of the process
    run,          \* number of the invocation (or direct call) on this filesystem
    wrote,        \* history: paths written by open()/write() in this invocation
    failed,       \* history: paths whose mkdir or open()/write() raised
    invoked,      \* history: producers called in this invocation
    prevDirs,     \* history: dirs when this invocation (or direct call) began
    prevFiles,    \* history: files when this invocation (or direct call) began
    service_name, \* _get_service_main: the argument of the call
    service_main  \* _get_service_main: the interpolated parts of the str returned

vars == << argv, project_name, base_path, pc, dirs, files, denied, faultKind,
           dirIdx, unit, pending, k, wf, kont, exc, stdout, exitStatus, run,
           wrote, failed, invoked, prevDirs, prevFiles, service_name,
           service_main >>

\* Bounds of the model.
MaxRuns == 2
MaxFaults == 1
MaxCalls == 2

DEFAULT_PROJECT_NAME == <<"prism-carbon-registry">>

(***************************************************************************)
(* The data of the generator: the directory list, the file dicts of the    *)
(* groups, the service list and the producers the class defines.           *)
(***************************************************************************)
directories ==
    << <<>>,
       <<"packages", "/", "common", "/", "database">>,
       <<"packages", "/", "common", "/", "models">>,
       <<"packages", "/", "common", "/", "auth">>,
       <<"packages", "/", "common", "/", "messaging">>,
       <<"packages", "/", "common", "/", "config">>,
       <<"packages", "/", "common", "/", "exceptions">>,
       <<"packages", "/", "common", "/", "logging">>,
       <<"packages", "/", "common", "/", "utils">>,
       <<"packages", "/", "blockchain", "/", "hedera">>,
       <<"packages", "/", "blockchain", "/", "contracts">>,
       <<"packages", "/", "blockchain", "/", "interfaces">>,
       <<"services", "/", "api-gateway", "/", "app", "/", "middleware">>,
       <<"services", "/", "api-gateway", "/", "app", "/", "routing">>,
       <<"services", "/", "api-gateway", "/", "app", "/", "auth">>,
       <<"services", "/", "api-gateway", "/", "config">>,
       <<"services", "/", "user-service", "/", "app", "/", "domain", "/", "entities">>,
       <<"services", "/", "user-service", "/", "app", "/", "domain", "/", "services">>,
       <<"services", "/", "user-service", "/", "app", "/", "domain", "/", "repositories">>,
       <<"services", "/", "user-service", "/", "app", "/", "domain", "/", "exceptions">>,
       <<"services", "/", "user-service", "/", "app", "/", "infrastructure", "/", "database", "/", "repositories">>,
       <<"services", "/", "user-service", "/", "app", "/", "infrastructure", "/", "database", "/", "migrations">>,
       <<"services", "/", "user-service", "/", "app", "/", "infrastructure", "/", "external">>,
       <<"services", "/", "user-service", "/", "app", "/", "infrastructure", "/", "messaging">>,
       <<"services", "/", "user-service", "/", "app", "/", "application", "/", "commands">>,
       <<"services", "/", "user-service", "/", "app", "/", "application", "/", "queries">>,
       <<"services", "/", "user-service", "/", "app", "/", "application", "/", "dto">>,
       <<"services", "/", "user-service", "/", "app", "/", "application", "/", "events">>,
       <<"services", "/", "user-service", "/", "app", "/", "presentation", "/", "api", "/", "v1", "/", "routes">>,
       <<"services", "/", "user-service", "/", "app", "/", "presentation", "/", "api", "/", "v1", "/", "schemas">>,
       <<"services", "/", "user-service", "/", "app", "/", "presentation", "/", "api", "/", "middleware">>,
       <<"services", "/", "user-service", "/", "app", "/", "presentation", "/", "events">>,
       <<"services", "/", "user-service", "/", "tests", "/", "unit">>,
       <<"services", "/", "user-service", "/", "tests", "/", "integration">>,
       <<"services", "/", "user-service", "/", "alembic">>,
       <<"services", "/", "project-service", "/", "app", "/", "domain", "/", "entities">>,
       <<"services", "/", "project-service", "/", "app", "/", "domain", "/", "services">>,
       <<"services", "/", "project-service", "/", "app", "/", "domain", "/", "repositories">>,
       <<"services", "/", "project-service", "/", "app", "/", "infrastructure", "/", "database">>,
       <<"services", "/", "project-service", "/", "app", "/", "infrastructure", "/", "file_storage">>,
       <<"services", "/", "project-service", "/", "app", "/", "infrastructure", "/", "ai">>,
       <<"services", "/", "project-service", "/", "app", "/", "application", "/", "commands">>,
       <<"services", "/", "project-service", "/", "app", "/", "application", "/", "queries">>,
       <<"services", "/", "project-service", "/", "app", "/", "application", "/", "dto">>,
       <<"services", "/", "project-service", "/", "app", "/", "presentation", "/", "api", "/", "v1", "/", "routes">>,
       <<"services", "/", "project-service", "/", "app", "/", "presentation", "/", "api", "/", "v1", "/", "schemas">>,
       <<"services", "/", "project-service", "/", "tests">>,
       <<"services", "/", "validation-service", "/", "app", "/", "domain", "/", "entities">>,
       <<"services", "/", "validation-service", "/", "app", "/", "domain", "/", "services">>,
       <<"services", "/", "validation-service", "/", "app", "/", "domain", "/", "repositories">>,
       <<"services", "/", "validation-service", "/", "app", "/", "infrastructure", "/", "ai">>,
       <<"services", "/", "validation-service", "/", "app", "/", "infrastructure", "/", "blockchain">>,
       <<"services", "/", "validation-service", "/", "app", "/", "application">>,
       <<"services", "/", "validation-service", "/", "app", "/", "presentation">>,
       <<"services", "/", "validation-service", "/", "tests">>,
       <<"services", "/", "registry-service", "/", "app", "/", "domain", "/", "entities">>,
       <<"services", "/", "registry-service", "/", "app", "/", "domain", "/", "services">>,
       <<"services", "/", "registry-service", "/", "app", "/", "domain", "/", "repositories">>,
       <<"services", "/", "registry-service", "/", "app", "/", "infrastructure", "/", "blockchain">>,
       <<"services", "/", "registry-service", "/", "app", "/", "infrastructure", "/", "ipfs">>,
       <<"services", "/", "registry-service", "/", "app", "/", "application">>,
       <<"services", "/", "registry-service", "/", "app", "/", "presentation">>,
       <<"services", "/", "registry-service", "/", "tests">>,
       <<"services", "/", "exchange-service", "/", "app", "/", "domain", "/", "entities">>,
       <<"services", "/", "exchange-service", "/", "app", "/", "domain", "/", "services">>,
       <<"services", "/", "exchange-service", "/", "app", "/", "domain", "/", "repositories">>,
       <<"services", "/", "exchange-service", "/", "app", "/", "infrastructure", "/", "matching">>,
       <<"services", "/", "exchange-service", "/", "app", "/", "infrastructure", "/", "websockets">>,
       <<"services", "/", "exchange-service", "/", "app", "/", "application">>,
       <<"services", "/", "exchange-service", "/", "app", "/", "presentation">>,
       <<"services", "/", "exchange-service", "/", "tests">>,
       <<"services", "/", "dmrv-service", "/", "app", "/", "domain", "/", "entities">>,
       <<"services", "/", "dmrv-service", "/", "app", "/", "domain", "/", "services">>,
       <<"services", "/", "dmrv-service", "/", "app", "/", "domain", "/", "repositories">>,
       <<"services", "/", "dmrv-service", "/", "app", "/", "infrastructure", "/", "satellite">>,
       <<"services", "/", "dmrv-service", "/", "app", "/", "infrastructure", "/", "iot">>,
       <<"services", "/", "dmrv-service", "/", "app", "/", "infrastructure", "/", "gis">>,
       <<"services", "/", "dmrv-service", "/", "app", "/", "infrastructure", "/", "ml">>,
       <<"services", "/", "dmrv-service", "/", "app", "/", "application">>,
       <<"services", "/", "dmrv-service", "/", "app", "/", "presentation">>,
       <<"services", "/", "dmrv-service", "/", "tests">>,
       <<"services", "/", "governance-service", "/", "app", "/", "domain", "/", "entities">>,
       <<"services", "/", "governance-service", "/", "app", "/", "domain", "/", "services">>,
       <<"services", "/", "governance-service", "/", "app", "/", "domain", "/", "repositories">>,
       <<"services", "/", "governance-service", "/", "app", "/", "infrastructure">>,
       <<"services", "/", "governance-service", "/", "app", "/", "application">>,
       <<"services", "/", "governance-service", "/", "app", "/", "presentation">>,
       <<"services", "/", "governance-service", "/", "tests">>,
       <<"services", "/", "notification-service", "/", "app", "/", "domain">>,
       <<"services", "/", "notification-service", "/", "app", "/", "infrastructure", "/", "email">>,
       <<"services", "/", "notification-service", "/", "app", "/", "infrastructure", "/", "sms">>,
       <<"services", "/", "notification-service", "/", "app", "/", "infrastructure", "/", "push">>,
       <<"services", "/", "notification-service", "/", "app", "/", "application">>,
       <<"services", "/", "notification-service", "/", "app", "/", "presentation">>,
       <<"services", "/", "notification-service", "/", "tests">>,
       <<"services", "/", "file-service", "/", "app", "/", "domain", "/", "entities">>,
       <<"services", "/", "file-service", "/", "app", "/", "domain", "/", "services">>,
       <<"services", "/", "file-service", "/", "app", "/", "domain", "/", "repositories">>,
       <<"services", "/", "file-service", "/", "app", "/", "infrastructure", "/", "storage">>,
       <<"services", "/", "file-service", "/", "app", "/", "infrastructure", "/", "processing">>,
       <<"services", "/", "file-service", "/", "app", "/", "infrastructure", "/", "security">>,
       <<"services", "/", "file-service", "/", "app", "/", "application">>,
       <<"services", "/", "file-service", "/", "app", "/", "presentation">>,
       <<"services", "/", "file-service", "/", "tests">>,
       <<"frontend", "/", "web-app", "/", "public">>,
       <<"frontend", "/", "web-app", "/", "src", "/", "components", "/", "common">>,
       <<"frontend", "/", "web-app", "/", "src", "/", "components", "/", "forms">>,
       <<"frontend", "/", "web-app", "/", "src", "/", "components", "/", "charts">>,
       <<"frontend", "/", "web-app", "/", "src", "/", "components", "/", "tables">>,
       <<"frontend", "/", "web-app", "/", "src", "/", "pages", "/", "public">>,
       <<"frontend", "/", "web-app", "/", "src", "/", "pages", "/", "dashboard">>,
       <<"frontend", "/", "web-app", "/", "src", "/", "pages", "/", "projects">>,
       <<"frontend", "/", "web-app", "/", "src", "/", "pages", "/", "validation">>,
       <<"frontend", "/", "web-app", "/", "src", "/", "pages", "/", "registry">>,
       <<"frontend", "/", "web-app", "/", "src", "/", "pages", "/", "exchange">>,
       <<"frontend", "/", "web-app", "/", "src", "/", "pages", "/", "admin">>,
       <<"frontend", "/", "web-app", "/", "src", "/", "services", "/", "api">>,
       <<"frontend", "/", "web-app", "/", "src", "/", "services", "/", "auth">>,
       <<"frontend", "/", "web-app", "/", "src", "/", "services", "/", "websockets">>,
       <<"frontend", "/", "web-app", "/", "src", "/", "hooks">>,
       <<"frontend", "/", "web-app", "/", "src", "/", "context">>,
       <<"frontend", "/", "web-app", "/", "src", "/", "utils">>,
       <<"frontend", "/", "web-app", "/", "src", "/", "types">>,
       <<"frontend", "/", "web-app", "/", "src", "/", "constants">>,
       <<"frontend", "/", "web-app", "/", "src", "/", "assets">>,
       <<"frontend", "/", "web-app", "/", "tests">>,
       <<"frontend", "/", "web-app", "/", "build">>,
       <<"frontend", "/", "mobile-app", "/", "android">>,
       <<"frontend", "/", "mobile-app", "/", "ios">>,
       <<"frontend", "/", "mobile-app", "/", "src">>,
       <<"frontend", "/", "mobile-app", "/", "tests">>,
       <<"frontend", "/", "admin-panel", "/", "src">>,
       <<"frontend", "/", "admin-panel", "/", "tests">>,
       <<"infrastructure", "/", "kubernetes", "/", "base">>,
       <<"infrastructure", "/", "kubernetes", "/", "overlays", "/", "development">>,
       <<"infrastructure", "/", "kubernetes", "/", "overlays", "/", "staging">>,
       <<"infrastructure", "/", "kubernetes", "/", "overlays", "/", "production">>,
       <<"infrastructure", "/", "kubernetes", "/", "charts">>,
       <<"infrastructure", "/", "terraform", "/", "modules">>,
       <<"infrastructure", "/", "terraform", "/", "environments">>,
       <<"infrastructure", "/", "docker", "/", "base">>,
       <<"infrastructure", "/", "docker", "/", "production">>,
       <<"infrastructure", "/", "monitoring", "/", "prometheus">>,
       <<"infrastructure", "/", "monitoring", "/", "grafana">>,
       <<"infrastructure", "/", "monitoring", "/", "alertmanager">>,
       <<"tools", "/", "scripts">>,
       <<"tools", "/", "generators">>,
       <<"tools", "/", "linting">>,
       <<"tools", "/", "testing">>,
       <<"docs", "/", "api">>,
       <<"docs", "/", "architecture">>,
       <<"docs", "/", "deployment">>,
       <<"docs", "/", "user-guides">>,
       <<"docs", "/", "development">>,
       <<"tests", "/", "integration">>,
       <<"tests", "/", "e2e">>,
       <<"tests", "/", "performance">>,
       <<"tests", "/", "fixtures">>,
       <<".github", "/", "workflows">> >>

root_files ==
    << [key |-> <<"README.md">>, kind |-> "call", val |-> "_get_main_readme"],
       [key |-> <<".gitignore">>, kind |-> "call", val |-> "_get_gitignore"],
       [key |-> <<".env.example">>, kind |-> "call", val |-> "_get_env_example"],
       [key |-> <<"docker-compose.yml">>, kind |-> "call", val |-> "_get_docker_compose"],
       [key |-> <<"docker-compose.prod.yml">>, kind |-> "call", val |-> "_get_docker_compose_prod"],
       [key |-> <<"Makefile">>, kind |-> "call", val |-> "_get_makefile"],
       [key |-> <<"requirements.txt">>, kind |-> "lit", val |-> "literal"] >>

common_files ==
    << [key |-> <<"packages", "/", "common", "/", "__init__.py">>, kind |-> "lit", val |-> ""],
       [key |-> <<"packages", "/", "common", "/", "database", "/", "__init__.py">>, kind |-> "lit", val |-> ""],
       [key |-> <<"packages", "/", "common", "/", "database", "/", "base.py">>, kind |-> "call", val |-> "_get_database_base"],
       [key |-> <<"packages", "/", "common", "/", "database", "/", "session.py">>, kind |-> "call", val |-> "_get_database_session"],
       [key |-> <<"packages", "/", "common", "/", "database", "/", "utils.py">>, kind |-> "call", val |-> "_get_database_utils"],
       [key |-> <<"packages", "/", "common", "/", "models", "/", "__init__.py">>, kind |-> "lit", val |-> ""],
       [key |-> <<"packages", "/", "common", "/", "models", "/", "base.py">>, kind |-> "call", val |-> "_get_models_base"],
       [key |-> <<"packages", "/", "common", "/", "models", "/", "user.py">>, kind |-> "call", val |-> "_get_user_model"],
       [key |-> <<"packages", "/", "common", "/", "models", "/", "project.py">>, kind |-> "call", val |-> "_get_project_model"],
       [key |-> <<"packages", "/", "common", "/", "models", "/", "enums.py">>, kind |-> "call", val |-> "_get_enums"],
       [key |-> <<"packages", "/", "common", "/", "auth", "/", "__init__.py">>, kind |-> "lit", val |-> ""],
       [key |-> <<"packages", "/", "common", "/", "auth", "/", "jwt_handler.py">>, kind |-> "call", val |-> "_get_jwt_handler"],
       [key |-> <<"packages", "/", "common", "/", "auth", "/", "middleware.py">>, kind |-> "call", val |-> "_get_auth_middleware"],
       [key |-> <<"packages", "/", "common", "/", "auth", "/", "decorators.py">>, kind |-> "call", val |-> "_get_auth_decorators"],
       [key |-> <<"packages", "/", "common", "/", "messaging", "/", "__init__.py">>, kind |-> "lit", val |-> ""],
       [key |-> <<"packages", "/", "common", "/", "messaging", "/", "event_bus.py">>, kind |-> "call", val |-> "_get_event_bus"],
       [key |-> <<"packages", "/", "common", "/", "messaging", "/", "message_types.py">>, kind |-> "call", val |-> "_get_message_types"],
       [key |-> <<"packages", "/", "common", "/", "messaging", "/", "publishers.py">>, kind |-> "call", val |-> "_get_publishers"],
       [key |-> <<"packages", "/", "common", "/", "config", "/", "__init__.py">>, kind |-> "lit", val |-> ""],
       [key |-> <<"packages", "/", "common", "/", "config", "/", "settings.py">>, kind |-> "call", val |-> "_get_settings"],
       [key |-> <<"packages", "/", "common", "/", "config", "/", "environment.py">>, kind |-> "call", val |-> "_get_environment"],
       [key |-> <<"packages", "/", "common", "/", "exceptions", "/", "__init__.py">>, kind |-> "lit", val |-> ""],
       [key |-> <<"packages", "/", "common", "/", "exceptions", "/", "base.py">>, kind |-> "call", val |-> "_get_exceptions_base"],
       [key |-> <<"packages", "/", "common", "/", "exceptions", "/", "business.py">>, kind |-> "call", val |-> "_get_business_exceptions"],
       [key |-> <<"packages", "/", "common", "/", "exceptions", "/", "handlers.py">>, kind |-> "call", val |-> "_get_exception_handlers"],
       [key |-> <<"packages", "/", "common", "/", "logging", "/", "__init__.py">>, kind |-> "lit", val |-> ""],
       [key |-> <<"packages", "/", "common", "/", "logging", "/", "setup.py">>, kind |-> "call", val |-> "_get_logging_setup"],
       [key |-> <<"packages", "/", "common", "/", "logging", "/", "formatters.py">>, kind |-> "call", val |-> "_get_logging_formatters"],
       [key |-> <<"packages", "/", "common", "/", "logging", "/", "middleware.py">>, kind |-> "call", val |-> "_get_logging_middleware"],
       [key |-> <<"packages", "/", "common", "/", "utils", "/", "__init__.py">>, kind |-> "lit", val |-> ""],
       [key |-> <<"packages", "/", "common", "/", "utils", "/", "validation.py">>, kind |-> "call", val |-> "_get_validation_utils"],
       [key |-> <<"packages", "/", "common", "/", "utils", "/", "serialization.py">>, kind |-> "call", val |-> "_get_serialization_utils"],
       [key |-> <<"packages", "/", "common", "/", "utils", "/", "helpers.py">>, kind |-> "call", val |-> "_get_helper_utils"] >>

blockchain_files ==
    << [key |-> <<"packages", "/", "blockchain", "/", "__init__.py">>, kind |-> "lit", val |-> ""],
       [key |-> <<"packages", "/", "blockchain", "/", "hedera", "/", "__init__.py">>, kind |-> "lit", val |-> ""],
       [key |-> <<"packages", "/", "blockchain", "/", "hedera", "/", "client.py">>, kind |-> "call", val |-> "_get_hedera_client"],
       [key |-> <<"packages", "/", "blockchain", "/", "hedera", "/", "contracts.py">>, kind |-> "call", val |-> "_get_hedera_contracts"],
       [key |-> <<"packages", "/", "blockchain", "/", "hedera", "/", "utils.py">>, kind |-> "call", val |-> "_get_hedera_utils"],
       [key |-> <<"packages", "/", "blockchain", "/", "contracts", "/", "CarbonAssetToken.sol">>, kind |-> "call", val |-> "_get_carbon_token_contract"],
       [key |-> <<"packages", "/", "blockchain", "/", "interfaces", "/", "__init__.py">>, kind |-> "lit", val |-> ""],
       [key |-> <<"packages", "/", "blockchain", "/", "interfaces", "/", "registry.py">>, kind |-> "call", val |-> "_get_registry_interface"] >>

service_files ==
    << [key |-> <<"Dockerfile">>, kind |-> "call_svc", val |-> "_get_service_dockerfile"],
       [key |-> <<"requirements.txt">>, kind |-> "call_svc", val |-> "_get_service_requirements"],
       [key |-> <<"app", "/", "__init__.py">>, kind |-> "lit", val |-> ""],
       [key |-> <<"app", "/", "main.py">>, kind |-> "call_svc", val |-> "_get_service_main"],
       [key |-> <<"tests", "/", "__init__.py">>, kind |-> "lit", val |-> ""],
       [key |-> <<"tests", "/", "conftest.py">>, kind |-> "call", val |-> "_get_test_conftest"],
       [key |-> <<"tests", "/", "unit", "/", "__init__.py">>, kind |-> "lit", val |-> ""],
       [key |-> <<"tests", "/", "integration", "/", "__init__.py">>, kind |-> "lit", val |-> ""] >>

web_files ==
    << [key |-> <<"package.json">>, kind |-> "call", val |-> "_get_frontend_package_json"],
       [key |-> <<"Dockerfile">>, kind |-> "call", val |-> "_get_frontend_dockerfile"],
       [key |-> <<"public", "/", "index.html">>, kind |-> "call", val |-> "_get_frontend_index_html"],
       [key |-> <<"src", "/", "index.tsx">>, kind |-> "call", val |-> "_get_frontend_index_tsx"],
       [key |-> <<"src", "/", "App.tsx">>, kind |-> "call", val |-> "_get_frontend_app_tsx"],
       [key |-> <<"src", "/", "components", "/", "common", "/", "Button.tsx">>, kind |-> "call", val |-> "_get_button_component"],
       [key |-> <<"src", "/", "components", "/", "common", "/", "Modal.tsx">>, kind |-> "call", val |-> "_get_modal_component"],
       [key |-> <<"src", "/", "pages", "/", "public", "/", "HomePage.tsx">>, kind |-> "call", val |-> "_get_home_page"],
       [key |-> <<"src", "/", "pages", "/", "dashboard", "/", "DashboardPage.tsx">>, kind |-> "call", val |-> "_get_dashboard_page"],
       [key |-> <<"src", "/", "services", "/", "api", "/", "client.ts">>, kind |-> "call", val |-> "_get_api_client"],
       [key |-> <<"src", "/", "services", "/", "auth", "/", "authService.ts">>, kind |-> "call", val |-> "_get_auth_service"],
       [key |-> <<"src", "/", "hooks", "/", "useAuth.ts">>, kind |-> "call", val |-> "_get_use_auth_hook"],
       [key |-> <<"src", "/", "context", "/", "AuthContext.tsx">>, kind |-> "call", val |-> "_get_auth_context"],
       [key |-> <<"src", "/", "types", "/", "index.ts">>, kind |-> "call", val |-> "_get_frontend_types"],
       [key |-> <<"src", "/", "constants", "/", "index.ts">>, kind |-> "call", val |-> "_get_frontend_constants"],
       [key |-> <<"tests", "/", "setup.ts">>, kind |-> "call", val |-> "_get_frontend_test_setup"] >>

infra_files ==
    << [key |-> <<"kubernetes", "/", "base", "/", "namespace.yaml">>, kind |-> "call", val |-> "_get_k8s_namespace"],
       [key |-> <<"kubernetes", "/", "base", "/", "configmap.yaml">>, kind |-> "call", val |-> "_get_k8s_configmap"],
       [key |-> <<"kubernetes", "/", "overlays", "/", "development", "/", "kustomization.yaml">>, kind |-> "call", val |-> "_get_k8s_kustomization_dev"],
       [key |-> <<"terraform", "/", "main.tf">>, kind |-> "call", val |-> "_get_terraform_main"],
       [key |-> <<"terraform", "/", "variables.tf">>, kind |-> "call", val |-> "_get_terraform_variables"],
       [key |-> <<"terraform", "/", "outputs.tf">>, kind |-> "call", val |-> "_get_terraform_outputs"],
       [key |-> <<"monitoring", "/", "prometheus", "/", "prometheus.yml">>, kind |-> "call", val |-> "_get_prometheus_config"],
       [key |-> <<"monitoring", "/", "grafana", "/", "dashboard.json">>, kind |-> "call", val |-> "_get_grafana_dashboard"] >>

tools_files ==
    << [key |-> <<"scripts", "/", "setup.sh">>, kind |-> "call", val |-> "_get_setup_script"],
       [key |-> <<"scripts", "/", "build.sh">>, kind |-> "call", val |-> "_get_build_script"],
       [key |-> <<"scripts", "/", "deploy.sh">>, kind |-> "call", val |-> "_get_deploy_script"],
       [key |-> <<"scripts", "/", "test.sh">>, kind |-> "call", val |-> "_get_test_script"],
       [key |-> <<"scripts", "/", "migrate.sh">>, kind |-> "call", val |-> "_get_migrate_script"],
       [key |-> <<"linting", "/", "pyproject.toml">>, kind |-> "call", val |-> "_get_pyproject_toml"],
       [key |-> <<"linting", "/", ".flake8">>, kind |-> "call", val |-> "_get_flake8_config"],
       [key |-> <<"testing", "/", "pytest.ini">>, kind |-> "call", val |-> "_get_pytest_config"] >>

docs_files ==
    << [key |-> <<"README.md">>, kind |-> "call", val |-> "_get_docs_readme"],
       [key |-> <<"architecture", "/", "overview.md">>, kind |-> "call", val |-> "_get_architecture_overview"],
       [key |-> <<"architecture", "/", "services.md">>, kind |-> "call", val |-> "_get_services_architecture"],
       [key |-> <<"deployment", "/", "local.md">>, kind |-> "call", val |-> "_get_local_deployment"],
       [key |-> <<"deployment", "/", "production.md">>, kind |-> "call", val |-> "_get_production_deployment"],
       [key |-> <<"development", "/", "getting-started.md">>, kind |-> "call", val |-> "_get_getting_started"],
       [key |-> <<"development", "/", "contributing.md">>, kind |-> "call", val |-> "_get_contributing_guide"],
       [key |-> <<"api", "/", "openapi.yml">>, kind |-> "call", val |-> "_get_openapi_spec"] >>

test_files ==
    << [key |-> <<"integration", "/", "test_user_flow.py">>, kind |-> "call", val |-> "_get_integration_test"],
       [key |-> <<"e2e", "/", "test_project_creation.py">>, kind |-> "call", val |-> "_get_e2e_test"],
       [key |-> <<"performance", "/", "test_load.py">>, kind |-> "call", val |-> "_get_performance_test"],
       [key |-> <<"fixtures", "/", "sample_data.json">>, kind |-> "call", val |-> "_get_test_fixtures"] >>

workflow_files ==
    << [key |-> <<"ci.yml">>, kind |-> "call", val |-> "_get_ci_workflow"],
       [key |-> <<"cd.yml">>, kind |-> "call", val |-> "_get_cd_workflow"],
       [key |-> <<"security.yml">>, kind |-> "call", val |-> "_get_security_workflow"],
       [key |-> <<"release.yml">>, kind |-> "call", val |-> "_get_release_workflow"] >>

services ==
    << "api-gateway", "user-service", "project-service", "validation-service", "registry-service", "exchange-service", "dmrv-service", "governance-service", "notification-service", "file-service" >>

user_service_files ==
    << [key |-> <<"app", "/", "domain", "/", "entities", "/", "user.py">>, kind |-> "lit", val |-> "literal"],
       [key |-> <<"app", "/", "domain", "/", "services", "/", "user_service.py">>, kind |-> "lit", val |-> "literal"],
       [key |-> <<"app", "/", "presentation", "/", "api", "/", "v1", "/", "routes", "/", "users.py">>, kind |-> "lit", val |-> "literal"] >>

Defined ==
    { "_get_main_readme", "_get_gitignore", "_get_env_example",
      "_get_docker_compose", "_get_docker_compose_prod", "_get_makefile",
      "_get_database_base", "_get_database_session", "_get_database_utils",
      "_get_models_base", "_get_user_model", "_get_project_model",
      "_get_enums", "_get_auth_middleware", "_get_auth_decorators",
      "_get_jwt_handler", "_get_message_types", "_get_publishers",
      "_get_environment", "_get_business_exceptions", "_get_exception_handlers",
      "_get_validation_utils", "_get_service_main", "_get_service_dockerfile",
      "_get_service_requirements", "_get_user_service_files", "_get_frontend_package_json",
      "_get_setup_script", "_get_ci_workflow", "_get_carbon_token_contract",
      "_get_hedera_client", "_get_settings", "_get_exceptions_base",
      "_get_logging_setup", "_get_logging_formatters", "_get_frontend_app_tsx",
      "_get_api_client", "_get_k8s_namespace", "_get_terraform_main",
      "_get_prometheus_config" }
(***************************************************************************)
(* Strings and paths.                                                      *)
(***************************************************************************)
Front(s) == SubSeq(s, 1, Len(s) - 1)

Last(s) == s[Len(s)]

\* str.split("/")
RECURSIVE split(_)
split(s) ==
    IF \A i \in 1..Len(s) : s[i] # "/"
    THEN << s >>
    ELSE LET j == CHOOSE i \in 1..Len(s) :
                      s[i] = "/" /\ \A h \in 1..(i - 1) : s[h] # "/"
         IN  << SubSeq(s, 1, j - 1) >> \o split(SubSeq(s, j + 1, Len(s)))

\* "/".join(parts)
RECURSIVE join(_)
join(parts) ==
    IF Len(parts) = 0 THEN <<>>
    ELSE IF Len(parts) = 1 THEN parts[1]
    ELSE parts[1] \o <<"/">> \o join(Tail(parts))

\* pathlib.Path(s): the parts of s, empty parts dropped
Path(s) == SelectSeq(split(s), LAMBDA part : Len(part) > 0)

\* pathlib: path / s
PathJoin(path, s) == path \o Path(s)

\* pathlib: path.parent (the parent of "." is ".")
Parent(path) == IF Len(path) = 0 THEN path ELSE Front(path)

(***************************************************************************)
(* The filesystem calls.  ds is the set of directories, fl the files, den  *)
(* the paths the environment refuses to create or write.                   *)
(***************************************************************************)
\* pathlib.Path.mkdir(parents, exist_ok): the directories afterwards and
\* whether the call returned (ok) or raised
RECURSIVE mkdir(_, _, _, _, _, _)
mkdir(ds, fl, den, path, parents, exist_ok) ==
    IF path \in ds \/ path \in DOMAIN fl
    THEN \* FileExistsError, swallowed only when path is a directory
         [dirs |-> ds, ok |-> exist_ok /\ path \in ds]
    ELSE IF Parent(path) \in DOMAIN fl
    THEN \* NotADirectoryError
         [dirs |-> ds, ok |-> FALSE]
    ELSE IF Parent(path) \notin ds
    THEN \* FileNotFoundError
         IF ~parents \/ Parent(path) = path
         THEN [dirs |-> ds, ok |-> FALSE]
         ELSE LET r == mkdir(ds, fl, den, Parent(path), TRUE, TRUE)
              IN  IF r.ok
                  THEN mkdir(r.dirs, fl, den, path, FALSE, exist_ok)
                  ELSE r
    ELSE IF path \in den
    THEN \* PermissionError
         [dirs |-> ds, ok |-> FALSE]
    ELSE [dirs |-> ds \cup {path}, ok |-> TRUE]

\* fl with the directory of path replaced by one that holds only the file
\* at path
Put_replace_directory(fl, path, content) ==
    [q \in { r \in DOMAIN fl : Parent(r) # Parent(path) } \cup {path} |->
        IF q = path THEN content ELSE fl[q]]

\* fl with the file at path holding content
Put(fl, path, content) ==
    [q \in DOMAIN fl \cup {path} |-> IF q = path THEN content ELSE fl[q]]

\* open_w opening in append mode
open_a(ds, fl, den, kind, path, content) ==
    IF path \in ds \/ Parent(path) \notin ds
    THEN [files |-> fl, ok |-> FALSE]
    ELSE IF path \in den
    THEN [files |-> fl, ok |-> FALSE]
    ELSE [files |-> Put(fl, path, (IF path \in DOMAIN fl THEN fl[path] ELSE <<>>) \o content),
          ok |-> TRUE]

\* open_w keeping a copy of the file it replaces
open_w_backup(ds, fl, den, kind, path, content) ==
    IF path \in ds \/ Parent(path) \notin ds
    THEN [files |-> fl, ok |-> FALSE]
    ELSE IF path \in den
    THEN [files |-> fl, ok |-> FALSE]
    ELSE IF path \in DOMAIN fl
    THEN [files |-> Put(Put(fl, Parent(path) \o << Last(path) \o <<".bak">> >>, fl[path]),
                        path, content),
          ok |-> TRUE]
    ELSE [files |-> Put(fl, path, content), ok |-> TRUE]

\* with open(path, 'w') as f: f.write(content)
open_w(ds, fl, den, kind, path, content) ==
    IF path \in ds \/ Parent(path) \notin ds
    THEN \* IsADirectoryError, FileNotFoundError, NotADirectoryError
         [files |-> fl, ok |-> FALSE]
    ELSE IF path \in den /\ kind = "open"
    THEN \* PermissionError from open()
         [files |-> fl, ok |-> FALSE]
    ELSE IF path \in den /\ kind = "write" /\ Len(content) > 0
    THEN \* open() truncated the file, then f.write raised OSError
         [files |-> Put(fl, path, <<>>), ok |-> FALSE]
    ELSE [files |-> Put(fl, path, content), ok |-> TRUE]

(***************************************************************************)
(* The groups of create_structure, in call order.  _create_services calls  *)
(* _create_service once per service; _create_github_workflows writes its   *)
(* dict and then the pull request template.                                *)
(***************************************************************************)
Group(name, svc) == [name |-> name, svc |-> svc]

Units ==
    << Group("root_files", ""), Group("shared_packages", "") >>
    \o [i \in 1..Len(services) |-> Group("service", services[i])]
    \o << Group("frontend", ""), Group("infrastructure", ""),
          Group("tools", ""), Group("documentation", ""), Group("tests", ""),
          Group("github_workflows", ""), Group("github_extra", "") >>

pr_template ==
    << [key |-> <<"PULL_REQUEST_TEMPLATE.md">>, kind |-> "call", val |-> "_get_pr_template"] >>

\* the entries of the dict display(s) a group evaluates, in evaluation order
Entries(u) ==
    CASE u.name = "root_files" -> root_files
      [] u.name = "shared_packages" -> common_files \o blockchain_files
      [] u.name = "service" -> service_files
      [] u.name = "frontend" -> web_files
      [] u.name = "infrastructure" -> infra_files
      [] u.name = "tools" -> tools_files
      [] u.name = "documentation" -> docs_files
      [] u.name = "tests" -> test_files
      [] u.name = "github_workflows" -> workflow_files
      [] u.name = "github_extra" -> pr_template

\* _create_service: the producer of the service-specific files, "" when none
ExtraFiles(u) ==
    IF u.name # "service" THEN ""
    ELSE IF u.svc = "user-service" THEN "_get_user_service_files"
    ELSE IF u.svc = "project-service" THEN "_get_project_service_files"
    ELSE IF u.svc = "api-gateway" THEN "_get_api_gateway_files"
    ELSE ""

\* the producers a group calls while it builds its dict, in call order
Calls(u) ==
    LET called == SelectSeq(Entries(u), LAMBDA e : e.kind # "lit")
    IN  [i \in 1..Len(called) |-> called[i].val]
        \o (IF ExtraFiles(u) = "" THEN <<>> ELSE << ExtraFiles(u) >>)

\* what an entry's value expression evaluates to
Content(e, svc) ==
    IF e.kind = "lit" THEN (IF e.val = "" THEN <<>> ELSE <<"literal">> \o e.key)
    ELSE IF e.kind = "call" THEN << e.val >>
    ELSE << e.val, svc >>

\* d.update(items), also {**d, **items}, on dicts kept in insertion order: a
\* key of d keeps its place and takes the last value items gives it, the new
\* keys follow in the order items first has them
DictUpdate(d, items) ==
    LET has(key) == \E j \in 1..Len(items) : items[j].key = key
        last(key) == CHOOSE j \in 1..Len(items) :
                         /\ items[j].key = key
                         /\ \A h \in (j + 1)..Len(items) : items[h].key # key
        numbered == [j \in 1..Len(items) |-> [key |-> items[j].key, at |-> j]]
        fresh == SelectSeq(numbered, LAMBDA e :
                     /\ \A i \in 1..Len(d) : d[i].key # e.key
                     /\ \A h \in 1..(e.at - 1) : items[h].key # e.key)
    IN  [i \in 1..Len(d) |->
            [key |-> d[i].key,
             content |-> IF has(d[i].key) THEN items[last(d[i].key)].content
                         ELSE d[i].content]]
        \o [i \in 1..Len(fresh) |->
               [key |-> fresh[i].key, content |-> items[last(fresh[i].key)].content]]

\* the dict a dict display evaluates to
Evaluate(entries, svc) ==
    DictUpdate(<<>>, [i \in 1..Len(entries) |->
                         [key |-> entries[i].key, content |-> Content(entries[i], svc)]])

\* the dict a group iterates over once all its producers have returned
FilesOf(u) ==
    IF ExtraFiles(u) = "_get_user_service_files"
    THEN DictUpdate(Evaluate(Entries(u), u.svc), Evaluate(user_service_files, u.svc))
    ELSE Evaluate(Entries(u), u.svc)

\* the first components of the directory a group writes its files under
Prefix(u) ==
    CASE u.name = "service" -> << <<"services", "/", u.svc>> >>
      [] u.name = "frontend" -> << <<"frontend", "/", "web-app">> >>
      [] u.name = "infrastructure" -> << <<"infrastructure">> >>
      [] u.name = "tools" -> << <<"tools">> >>
      [] u.name = "documentation" -> << <<"docs">> >>
      [] u.name = "tests" -> << <<"tests">> >>
      [] OTHER -> <<>>

\* the write loop joining all the parts of the key, the file name included,
\* into the directory
Args_whole_key(u, item) ==
    IF u.name = "root_files"
    THEN [directory |-> <<>>, filename |-> item.key, content |-> item.content]
    ELSE IF u.name = "github_workflows"
    THEN [directory |-> <<".github", "/", "workflows">>, filename |-> item.key,
          content |-> item.content]
    ELSE IF u.name = "github_extra"
    THEN [directory |-> <<".github">>, filename |-> item.key, content |-> item.content]
    ELSE LET path_parts == split(item.key)
         IN  [directory |-> join(Prefix(u) \o path_parts),
              filename |-> Last(path_parts), content |-> item.content]

\* the arguments the write loop of a group passes to _write_file for an item
Args(u, item) ==
    IF u.name = "root_files"
    THEN [directory |-> <<>>, filename |-> item.key, content |-> item.content]
    ELSE IF u.name = "github_workflows"
    THEN [directory |-> <<".github", "/", "workflows">>, filename |-> item.key,
          content |-> item.content]
    ELSE IF u.name = "github_extra"
    THEN [directory |-> <<".github">>, filename |-> item.key, content |-> item.content]
    ELSE LET path_parts == split(item.key)
         IN  [directory |-> join(Prefix(u) \o Front(path_parts)),
              filename |-> Last(path_parts), content |-> item.content]

\* _write_file opening a file given without a directory relative to the
\* current working directory
FilePath_cwd(base, directory, filename) ==
    IF Len(directory) > 0
    THEN PathJoin(PathJoin(base, directory), filename)
    ELSE PathJoin(<<>>, filename)

\* _write_file: the path it opens
FilePath(base, directory, filename) ==
    IF Len(directory) > 0
    THEN PathJoin(PathJoin(base, directory), filename)
    ELSE PathJoin(base, filename)

\* the files a group writes, in the order of its loop
UnitPlan(base, u) ==
    LET d == FilesOf(u)
    IN  [j \in 1..Len(d) |->
            [path |-> FilePath(base, Args(u, d[j]).directory, Args(u, d[j]).filename),
             content |-> d[j].content]]

\* the files the groups lo..hi of create_structure write, in order
RECURSIVE PlanRange(_, _, _)
PlanRange(base, lo, hi) ==
    IF lo > hi THEN <<>>
    ELSE IF lo = hi THEN UnitPlan(base, Units[lo])
    ELSE LET mid == (lo + hi) \div 2
         IN  PlanRange(base, lo, mid) \o PlanRange(base, mid + 1, hi)

\* the files create_structure writes, in the order it writes them
Plan(base) == PlanRange(base, 1, Len(Units))

Msg(m, n) == [msg |-> m, n |-> n]

\* no call of _get_service_main has returned
NoMain == [docstring |-> <<>>, title |-> <<>>, description |-> <<>>,
           root_message |-> <<>>, health_check |-> [status |-> <<>>, service |-> <<>>]]

NoCall == [directory |-> <<>>, filename |-> <<>>, content |-> <<>>, file_path |-> <<>>]

(***************************************************************************)
(* The environment: the command line, the tree found in the current        *)
(* directory and the paths at which the filesystem refuses an operation.   *)
(***************************************************************************)
\* main ignoring the command line
NameOf_default_only(av) == DEFAULT_PROJECT_NAME

\* main: sys.argv[1] if len(sys.argv) > 1 else the default name
NameOf(av) == IF Len(av) > 0 THEN av[1] ELSE DEFAULT_PROJECT_NAME

ArgvChoices == { <<>>, << <<"my-registry">> >> }

NoFiles == [q \in {} |-> <<>>]

OldContent == <<"old">>

\* trees the tool may find, R being the project root
InitialTrees(R) ==
    { [dirs |-> { <<>> }, files |-> NoFiles],
      [dirs |-> { <<>> }, files |-> (R :> OldContent)],
      [dirs |-> { <<>>, R }, files |-> NoFiles],
      [dirs |-> { <<>>, R },
       files |-> (PathJoin(R, <<"README.md">>) :> OldContent)
                 @@ (PathJoin(R, <<"notes.txt">>) :> <<"notes">>)],
      [dirs |-> { <<>>, R }, files |-> (PathJoin(R, <<"packages">>) :> OldContent)],
      [dirs |-> { <<>>, R, PathJoin(R, <<"Makefile">>) }, files |-> NoFiles],
      [dirs |-> { <<>>, R, PathJoin(R, <<"packages">>),
                  PathJoin(R, <<"packages", "/", "common">>),
                  PathJoin(R, <<"packages", "/", "common", "/", "database">>),
                  PathJoin(R, <<"docs">>), PathJoin(R, <<"scratch">>) },
       files |-> NoFiles] }

\* paths at which the environment may refuse the operation
FaultPaths(R) ==
    { R, PathJoin(R, <<"packages", "/", "common", "/", "models">>),
      PathJoin(R, <<"docs">>), PathJoin(R, <<"README.md">>),
      PathJoin(R, <<"Makefile">>), PathJoin(R, <<"requirements.txt">>) }

Faults(R) ==
    { d \in SUBSET FaultPaths(R) : Cardinality(d) <= MaxFaults }

InitEnv ==
    /\ argv \in ArgvChoices
    /\ \E t \in InitialTrees(Path(NameOf(argv))) :
           /\ dirs = t.dirs
           /\ files = t.files
    /\ denied \in Faults(Path(NameOf(argv)))
    /\ faultKind \in (IF denied = {} THEN {"open"} ELSE {"open", "write"})

InitProcess ==
    /\ dirIdx = 1
    /\ unit = 1
    /\ pending = <<>>
    /\ k = 1
    /\ exc = ""
    /\ stdout = <<>>
    /\ exitStatus = -1
    /\ wrote = <<>>
    /\ failed = <<>>
    /\ invoked = <<>>

\* the process has been started, the generator is not yet constructed
Init ==
    /\ InitEnv
    /\ InitProcess
    /\ project_name = <<>>
    /\ base_path = <<>>
    /\ pc = "main"
    /\ wf = NoCall
    /\ kont = "loop"
    /\ run = 1
    /\ prevDirs = dirs
    /\ prevFiles = files
    /\ service_name = <<>>
    /\ service_main = NoMain

(***************************************************************************)
(* The steps of an invocation.                                             *)
(***************************************************************************)
\* main and StructureGenerator.__init__
main ==
    /\ pc = "main"
    /\ project_name' = NameOf(argv)
    /\ base_path' = Path(NameOf(argv))
    /\ pc' = "create_structure"
    /\ UNCHANGED << argv, dirs, files, denied, faultKind, dirIdx, unit, pending, k,
                    wf, kont, exc, stdout, exitStatus, run, wrote, failed, invoked,
                    prevDirs, prevFiles >>
    /\ UNCHANGED << service_name, service_main >>

\* create_structure calling the file groups without _create_directories
create_structure_files_first ==
    /\ pc = "create_structure"
    /\ stdout' = Append(stdout, Msg("creating", 0))
    /\ unit' = 1
    /\ pc' = "build"
    /\ UNCHANGED << argv, project_name, base_path, dirs, files, denied, faultKind,
                    dirIdx, pending, k, wf, kont, exc, exitStatus, run, wrote, failed,
                    invoked, prevDirs, prevFiles >>
    /\ UNCHANGED << service_name, service_main >>

\* run enters create_structure, which prints its first line and calls
\* _create_directories
create_structure ==
    /\ pc = "create_structure"
    /\ stdout' = Append(stdout, Msg("creating", 0))
    /\ dirIdx' = 1
    /\ pc' = "mkdir"
    /\ UNCHANGED << argv, project_name, base_path, dirs, files, denied, faultKind,
                    unit, pending, k, wf, kont, exc, exitStatus, run, wrote, failed,
                    invoked, prevDirs, prevFiles >>
    /\ UNCHANGED << service_name, service_main >>

\* run without its except clause: the exception leaves run
Raised_escapes == "raised"

\* an exception leaves the frame: run's handler in an invocation, the caller
\* of _write_file otherwise
Raised == IF kont = "loop" THEN "except" ELSE "raised"

\* the directories, relative to the root, that hold a file of the plan
PlannedParents ==
    LET rel == Plan(<<>>)
    IN  UNION { { SubSeq(rel[i].path, 1, n) : n \in 0..(Len(rel[i].path) - 1) } :
                i \in 1..Len(rel) }

\* the loop of _create_directories creating only the directories that will
\* hold a file
_create_directories_loop_for_files ==
    /\ pc = "mkdir"
    /\ dirIdx <= Len(directories)
    /\ LET path == PathJoin(base_path, directories[dirIdx])
           r == IF PathJoin(<<>>, directories[dirIdx]) \in PlannedParents
                THEN mkdir(dirs, files, denied, path, TRUE, TRUE)
                ELSE [dirs |-> dirs, ok |-> TRUE]
       IN  /\ dirs' = r.dirs
           /\ IF r.ok
              THEN /\ dirIdx' = dirIdx + 1
                   /\ UNCHANGED << pc, exc, failed >>
              ELSE /\ pc' = "except"
                   /\ exc' = "OSError"
                   /\ failed' = Append(failed, path)
                   /\ UNCHANGED dirIdx
    /\ UNCHANGED << argv, project_name, base_path, files, denied, faultKind, unit,
                    pending, k, wf, kont, stdout, exitStatus, run, wrote, invoked,
                    prevDirs, prevFiles >>
    /\ UNCHANGED << service_name, service_main >>

\* the loop of _create_directories creating the parent of each directory and
\* leaving the directory itself to the file writes
_create_directories_loop_parent_only ==
    /\ pc = "mkdir"
    /\ dirIdx <= Len(directories)
    /\ LET path == Parent(PathJoin(base_path, directories[dirIdx]))
           r == mkdir(dirs, files, denied, path, TRUE, TRUE)
       IN  /\ dirs' = r.dirs
           /\ IF r.ok
              THEN /\ dirIdx' = dirIdx + 1
                   /\ UNCHANGED << pc, exc, failed >>
              ELSE /\ pc' = "except"
                   /\ exc' = "OSError"
                   /\ failed' = Append(failed, path)
                   /\ UNCHANGED dirIdx
    /\ UNCHANGED << argv, project_name, base_path, files, denied, faultKind, unit,
                    pending, k, wf, kont, stdout, exitStatus, run, wrote, invoked,
                    prevDirs, prevFiles >>
    /\ UNCHANGED << service_name, service_main >>

\* the loop of _create_directories calling mkdir without exist_ok
_create_directories_loop_no_exist_ok ==
    /\ pc = "mkdir"
    /\ dirIdx <= Len(directories)
    /\ LET path == PathJoin(base_path, directories[dirIdx])
           r == mkdir(dirs, files, denied, path, TRUE, FALSE)
       IN  /\ dirs' = r.dirs
           /\ IF r.ok
              THEN /\ dirIdx' = dirIdx + 1
                   /\ UNCHANGED << pc, exc, failed >>
              ELSE /\ pc' = "except"
                   /\ exc' = "OSError"
                   /\ failed' = Append(failed, path)
                   /\ UNCHANGED dirIdx
    /\ UNCHANGED << argv, project_name, base_path, files, denied, faultKind, unit,
                    pending, k, wf, kont, stdout, exitStatus, run, wrote, invoked,
                    prevDirs, prevFiles >>
    /\ UNCHANGED << service_name, service_main >>

\* one iteration of the loop of _create_directories
_create_directories_loop ==
    /\ pc = "mkdir"
    /\ dirIdx <= Len(directories)
    /\ LET path == PathJoin(base_path, directories[dirIdx])
           r == mkdir(dirs, files, denied, path, TRUE, TRUE)
       IN  /\ dirs' = r.dirs
           /\ IF r.ok
              THEN /\ dirIdx' = dirIdx + 1
                   /\ UNCHANGED << pc, exc, failed >>
              ELSE /\ pc' = "except"
                   /\ exc' = "OSError"
                   /\ failed' = Append(failed, path)
                   /\ UNCHANGED dirIdx
    /\ UNCHANGED << argv, project_name, base_path, files, denied, faultKind, unit,
                    pending, k, wf, kont, stdout, exitStatus, run, wrote, invoked,
                    prevDirs, prevFiles >>
    /\ UNCHANGED << service_name, service_main >>

\* the loop of _create_directories is over: print the count, return to
\* create_structure, which calls _create_root_files
_create_directories_print ==
    /\ pc = "mkdir"
    /\ dirIdx > Len(directories)
    /\ stdout' = Append(stdout, Msg("created_directories", Len(directories)))
    /\ unit' = 1
    /\ pc' = "build"
    /\ UNCHANGED << argv, project_name, base_path, dirs, files, denied, faultKind,
                    dirIdx, pending, k, wf, kont, exc, exitStatus, run, wrote, failed,
                    invoked, prevDirs, prevFiles >>
    /\ UNCHANGED << service_name, service_main >>

\* a _create_* method producing each content just before it writes the file:
\* the files whose producers precede the first missing one are written
build_files_lazy ==
    /\ pc = "build"
    /\ LET u == Units[unit]
           calls == Calls(u)
           d == FilesOf(u)
           bad == { j \in 1..Len(d) : /\ d[j].content # <<>>
                                      /\ d[j].content[1] # "literal"
                                      /\ d[j].content[1] \notin Defined }
           n == IF bad = {} THEN Len(d)
                ELSE (CHOOSE j \in bad : \A h \in bad : j <= h) - 1
       IN  /\ invoked' = invoked \o SelectSeq(calls, LAMBDA c : c \in Defined)
           /\ pending' = SubSeq(d, 1, n)
           /\ k' = 1
           /\ pc' = "write"
           /\ UNCHANGED exc
    /\ UNCHANGED << argv, project_name, base_path, dirs, files, denied, faultKind,
                    dirIdx, unit, wf, kont, stdout, exitStatus, run, wrote, failed,
                    prevDirs, prevFiles >>
    /\ UNCHANGED << service_name, service_main >>

\* a _create_* method that also calls the producers of the group after it
\* before it writes its own files
build_files_ahead ==
    /\ pc = "build"
    /\ LET u == Units[unit]
           calls == Calls(u)
           ahead == IF unit < Len(Units)
                    THEN SelectSeq(Calls(Units[unit + 1]), LAMBDA c : c \in Defined)
                    ELSE <<>>
           missing == { i \in 1..Len(calls) : calls[i] \notin Defined }
       IN  IF missing = {}
           THEN /\ invoked' = invoked \o calls \o ahead
                /\ pending' = FilesOf(u)
                /\ k' = 1
                /\ pc' = "write"
                /\ UNCHANGED exc
           ELSE LET first == CHOOSE i \in missing : \A j \in missing : i <= j
                IN  /\ invoked' = invoked \o SubSeq(calls, 1, first - 1)
                    /\ exc' = "AttributeError"
                    /\ pc' = "except"
                    /\ UNCHANGED << pending, k >>
    /\ UNCHANGED << argv, project_name, base_path, dirs, files, denied, faultKind,
                    dirIdx, unit, wf, kont, stdout, exitStatus, run, wrote, failed,
                    prevDirs, prevFiles >>
    /\ UNCHANGED << service_name, service_main >>

\* a _create_* method writing an empty placeholder for a key whose producer
\* the class does not define
build_files_placeholder ==
    /\ pc = "build"
    /\ LET u == Units[unit]
           calls == Calls(u)
           defined == SelectSeq(calls, LAMBDA c : c \in Defined)
           d == FilesOf(u)
       IN  /\ invoked' = invoked \o defined
           /\ pending' = [j \in 1..Len(d) |->
                            [key |-> d[j].key,
                             content |-> IF /\ d[j].content # <<>>
                                            /\ d[j].content[1] # "literal"
                                            /\ d[j].content[1] \notin Defined
                                         THEN <<>> ELSE d[j].content]]
           /\ k' = 1
           /\ pc' = "write"
           /\ UNCHANGED exc
    /\ UNCHANGED << argv, project_name, base_path, dirs, files, denied, faultKind,
                    dirIdx, unit, wf, kont, stdout, exitStatus, run, wrote, failed,
                    prevDirs, prevFiles >>
    /\ UNCHANGED << service_name, service_main >>

\* a _create_* method evaluates its dict: every producer is looked up and
\* called in order, a producer the class does not define raises AttributeError
build_files ==
    /\ pc = "build"
    /\ LET u == Units[unit]
           calls == Calls(u)
           missing == { i \in 1..Len(calls) : calls[i] \notin Defined }
       IN  IF missing = {}
           THEN /\ invoked' = invoked \o calls
                /\ pending' = FilesOf(u)
                /\ k' = 1
                /\ pc' = "write"
                /\ UNCHANGED exc
           ELSE LET first == CHOOSE i \in missing : \A j \in missing : i <= j
                IN  /\ invoked' = invoked \o SubSeq(calls, 1, first - 1)
                    /\ exc' = "AttributeError"
                    /\ pc' = "except"
                    /\ UNCHANGED << pending, k >>
    /\ UNCHANGED << argv, project_name, base_path, dirs, files, denied, faultKind,
                    dirIdx, unit, wf, kont, stdout, exitStatus, run, wrote, failed,
                    prevDirs, prevFiles >>
    /\ UNCHANGED << service_name, service_main >>

\* one iteration of the write loop of a group: split the key and call
\* _write_file
write_loop ==
    /\ pc = "write"
    /\ k <= Len(pending)
    /\ LET a == Args(Units[unit], pending[k])
       IN  wf' = [directory |-> a.directory, filename |-> a.filename,
                  content |-> a.content, file_path |-> <<>>]
    /\ kont' = "loop"
    /\ pc' = "wf_mkdir"
    /\ UNCHANGED << argv, project_name, base_path, dirs, files, denied, faultKind,
                    dirIdx, unit, pending, k, exc, stdout, exitStatus, run, wrote,
                    failed, invoked, prevDirs, prevFiles >>
    /\ UNCHANGED << service_name, service_main >>

\* _write_file skipping the file when its parent directory cannot be created
_write_file_mkdir_skip ==
    /\ pc = "wf_mkdir"
    /\ LET file_path == FilePath(base_path, wf.directory, wf.filename)
           r == mkdir(dirs, files, denied, Parent(file_path), TRUE, TRUE)
       IN  /\ wf' = [wf EXCEPT !.file_path = file_path]
           /\ dirs' = r.dirs
           /\ IF r.ok
              THEN /\ pc' = "wf_open"
                   /\ UNCHANGED k
              ELSE /\ pc' = IF kont = "loop" THEN "write" ELSE "returned"
                   /\ k' = IF kont = "loop" THEN k + 1 ELSE k
    /\ UNCHANGED << argv, project_name, base_path, files, denied, faultKind, dirIdx,
                    unit, pending, kont, exc, failed, stdout, exitStatus, run, wrote,
                    invoked, prevDirs, prevFiles >>
    /\ UNCHANGED << service_name, service_main >>

\* _write_file opening the file without creating its parent directory
_write_file_no_mkdir ==
    /\ pc = "wf_mkdir"
    /\ wf' = [wf EXCEPT !.file_path = FilePath(base_path, wf.directory, wf.filename)]
    /\ pc' = "wf_open"
    /\ UNCHANGED << argv, project_name, base_path, dirs, files, denied, faultKind,
                    dirIdx, unit, pending, k, kont, exc, stdout, exitStatus, run,
                    wrote, failed, invoked, prevDirs, prevFiles >>
    /\ UNCHANGED << service_name, service_main >>

\* _write_file: compute file_path and create its parent directory
_write_file_mkdir ==
    /\ pc = "wf_mkdir"
    /\ LET file_path == FilePath(base_path, wf.directory, wf.filename)
           r == mkdir(dirs, files, denied, Parent(file_path), TRUE, TRUE)
       IN  /\ wf' = [wf EXCEPT !.file_path = file_path]
           /\ dirs' = r.dirs
           /\ IF r.ok
              THEN /\ pc' = "wf_open"
                   /\ UNCHANGED << exc, failed >>
              ELSE /\ pc' = Raised
                   /\ exc' = "OSError"
                   /\ failed' = Append(failed, file_path)
    /\ UNCHANGED << argv, project_name, base_path, files, denied, faultKind, dirIdx,
                    unit, pending, k, kont, stdout, exitStatus, run, wrote, invoked,
                    prevDirs, prevFiles >>
    /\ UNCHANGED << service_name, service_main >>

\* _write_file trying the open a second time after it failed
_write_file_open_retry ==
    /\ pc = "wf_open"
    /\ LET r == open_w(dirs, files, denied, faultKind, wf.file_path, wf.content)
       IN  /\ files' = r.files
           /\ IF r.ok
              THEN /\ wrote' = Append(wrote, wf.file_path)
                   /\ pc' = IF kont = "loop" THEN "write" ELSE "returned"
                   /\ k' = IF kont = "loop" THEN k + 1 ELSE k
                   /\ UNCHANGED << exc, failed >>
              ELSE /\ pc' = IF failed = <<>> THEN "wf_open" ELSE Raised
                   /\ exc' = IF failed = <<>> THEN exc ELSE "OSError"
                   /\ failed' = Append(failed, wf.file_path)
                   /\ UNCHANGED << wrote, k >>
    /\ UNCHANGED << argv, project_name, base_path, dirs, denied, faultKind, dirIdx,
                    unit, pending, wf, kont, stdout, exitStatus, run, invoked,
                    prevDirs, prevFiles >>
    /\ UNCHANGED << service_name, service_main >>

\* _write_file catching the error of a write and going on with the next file
_write_file_open_swallow ==
    /\ pc = "wf_open"
    /\ LET r == open_w(dirs, files, denied, faultKind, wf.file_path, wf.content)
       IN  /\ files' = r.files
           /\ wrote' = IF r.ok THEN Append(wrote, wf.file_path) ELSE wrote
           /\ failed' = IF r.ok THEN failed ELSE Append(failed, wf.file_path)
           /\ pc' = IF kont = "loop" THEN "write" ELSE "returned"
           /\ k' = IF kont = "loop" THEN k + 1 ELSE k
    /\ UNCHANGED << argv, project_name, base_path, dirs, denied, faultKind, dirIdx,
                    unit, pending, wf, kont, exc, stdout, exitStatus, run, invoked,
                    prevDirs, prevFiles >>
    /\ UNCHANGED << service_name, service_main >>

\* _write_file: open the file for writing and write the content
_write_file_open ==
    /\ pc = "wf_open"
    /\ LET r == open_w(dirs, files, denied, faultKind, wf.file_path, wf.content)
       IN  /\ files' = r.files
           /\ IF r.ok
              THEN /\ wrote' = Append(wrote, wf.file_path)
                   /\ pc' = IF kont = "loop" THEN "write" ELSE "returned"
                   /\ k' = IF kont = "loop" THEN k + 1 ELSE k
                   /\ UNCHANGED << exc, failed >>
              ELSE /\ pc' = Raised
                   /\ exc' = "OSError"
                   /\ failed' = Append(failed, wf.file_path)
                   /\ UNCHANGED << wrote, k >>
    /\ UNCHANGED << argv, project_name, base_path, dirs, denied, faultKind, dirIdx,
                    unit, pending, wf, kont, stdout, exitStatus, run, invoked,
                    prevDirs, prevFiles >>
    /\ UNCHANGED << service_name, service_main >>

\* create_structure leaving a group for the next one before the write loop
\* of the group is over
next_group_early ==
    /\ pc = "write"
    /\ k > 1
    /\ IF unit < Len(Units)
       THEN /\ unit' = unit + 1
            /\ pc' = "build"
            /\ UNCHANGED << stdout, exitStatus >>
       ELSE /\ stdout' = stdout \o << Msg("success", 0), Msg("location", 0),
                                      Msg("next_steps", 0) >>
            /\ exitStatus' = 0
            /\ pc' = "exit"
            /\ UNCHANGED unit
    /\ UNCHANGED << argv, project_name, base_path, dirs, files, denied, faultKind,
                    dirIdx, pending, k, wf, kont, exc, wrote, failed, invoked, run,
                    prevDirs, prevFiles >>
    /\ UNCHANGED << service_name, service_main >>

\* the write loop of a group is over: create_structure calls the next group,
\* or prints the banner and the next steps and returns; main then ends
next_group ==
    /\ pc = "write"
    /\ k > Len(pending)
    /\ IF unit < Len(Units)
       THEN /\ unit' = unit + 1
            /\ pc' = "build"
            /\ UNCHANGED << stdout, exitStatus >>
       ELSE /\ stdout' = stdout \o << Msg("success", 0), Msg("location", 0),
                                      Msg("next_steps", 0) >>
            /\ exitStatus' = 0
            /\ pc' = "exit"
            /\ UNCHANGED unit
    /\ UNCHANGED << argv, project_name, base_path, dirs, files, denied, faultKind,
                    dirIdx, pending, k, wf, kont, exc, wrote, failed, invoked, run,
                    prevDirs, prevFiles >>
    /\ UNCHANGED << service_name, service_main >>

\* run ending a failed invocation with a report of what had succeeded
run_except_with_summary ==
    /\ pc = "except"
    /\ stdout' = stdout \o << Msg("error", 0), Msg("partially_failed", 0),
                              Msg("created_directories", dirIdx - 1),
                              Msg("files_written", Len(wrote)) >>
    /\ exitStatus' = 1
    /\ pc' = "exit"
    /\ UNCHANGED << argv, project_name, base_path, dirs, files, denied, faultKind,
                    dirIdx, unit, pending, k, wf, kont, exc, wrote, failed, invoked,
                    run, prevDirs, prevFiles >>
    /\ UNCHANGED << service_name, service_main >>

\* run treating an OSError of a file write as non-fatal for the exit status
run_except_oserror_exit_zero ==
    /\ pc = "except"
    /\ stdout' = Append(stdout, Msg("error", 0))
    /\ exitStatus' = IF exc = "OSError" /\ dirIdx > Len(directories) THEN 0 ELSE 1
    /\ pc' = "exit"
    /\ UNCHANGED << argv, project_name, base_path, dirs, files, denied, faultKind,
                    dirIdx, unit, pending, k, wf, kont, exc, wrote, failed, invoked,
                    run, prevDirs, prevFiles >>
    /\ UNCHANGED << service_name, service_main >>

\* run printing the banner and the next steps after the error, as a finally
\* clause would
run_except_then_banner ==
    /\ pc = "except"
    /\ stdout' = stdout \o << Msg("error", 0), Msg("success", 0), Msg("location", 0),
                              Msg("next_steps", 0) >>
    /\ exitStatus' = 1
    /\ pc' = "exit"
    /\ UNCHANGED << argv, project_name, base_path, dirs, files, denied, faultKind,
                    dirIdx, unit, pending, k, wf, kont, exc, wrote, failed, invoked,
                    run, prevDirs, prevFiles >>
    /\ UNCHANGED << service_name, service_main >>

\* run undoing the work of the invocation before it exits
run_except_rollback ==
    /\ pc = "except"
    /\ stdout' = Append(stdout, Msg("error", 0))
    /\ dirs' = prevDirs
    /\ files' = prevFiles
    /\ exitStatus' = 1
    /\ pc' = "exit"
    /\ UNCHANGED << argv, project_name, base_path, denied, faultKind,
                    dirIdx, unit, pending, k, wf, kont, exc, wrote, failed, invoked,
                    run, prevDirs, prevFiles >>
    /\ UNCHANGED << service_name, service_main >>

\* run printing the error without sys.exit(1)
run_except_no_exit ==
    /\ pc = "except"
    /\ stdout' = Append(stdout, Msg("error", 0))
    /\ exitStatus' = 0
    /\ pc' = "exit"
    /\ UNCHANGED << argv, project_name, base_path, dirs, files, denied, faultKind,
                    dirIdx, unit, pending, k, wf, kont, exc, wrote, failed, invoked,
                    run, prevDirs, prevFiles >>
    /\ UNCHANGED << service_name, service_main >>

\* run: except Exception as e: print the error, sys.exit(1)
run_except ==
    /\ pc = "except"
    /\ stdout' = Append(stdout, Msg("error", 0))
    /\ exitStatus' = 1
    /\ pc' = "exit"
    /\ UNCHANGED << argv, project_name, base_path, dirs, files, denied, faultKind,
                    dirIdx, unit, pending, k, wf, kont, exc, wrote, failed, invoked,
                    run, prevDirs, prevFiles >>
    /\ UNCHANGED << service_name, service_main >>

\* the tool is invoked again with the same command line on the tree the
\* previous invocation left
invoke_again ==
    /\ pc = "exit"
    /\ run < MaxRuns
    /\ run' = run + 1
    /\ prevDirs' = dirs
    /\ prevFiles' = files
    /\ pc' = "main"
    /\ project_name' = <<>>
    /\ base_path' = <<>>
    /\ wf' = NoCall
    /\ kont' = "loop"
    /\ dirIdx' = 1
    /\ unit' = 1
    /\ pending' = <<>>
    /\ k' = 1
    /\ exc' = ""
    /\ stdout' = <<>>
    /\ exitStatus' = -1
    /\ wrote' = <<>>
    /\ failed' = <<>>
    /\ invoked' = <<>>
    /\ UNCHANGED << argv, dirs, files, denied, faultKind >>
    /\ UNCHANGED << service_name, service_main >>

Next ==
    \/ main
    \/ create_structure
    \/ _create_directories_loop
    \/ _create_directories_print
    \/ build_files
    \/ write_loop
    \/ _write_file_mkdir
    \/ _write_file_open
    \/ next_group
    \/ run_except
    \/ invoke_again

Spec == Init /\ [][Next]_vars

(***************************************************************************)
(* _write_file called directly, with arguments drawn from small sets, on   *)
(* each of the initial trees; the caller may call it again with another    *)
(* content for the same file.                                              *)
(***************************************************************************)
DirectoryArgs ==
    { <<>>, <<".github">>, <<"docs">>, <<"packages", "/", "common">>,
      <<"services", "/", "api-gateway", "/", "tests", "/", "unit">> }

FilenameArgs == { <<"README.md">>, <<"__init__.py">>, <<"Makefile">> }

ContentArgs == { <<>>, <<"_get_main_readme">>, OldContent }

InitWriteFile ==
    /\ InitEnv
    /\ InitProcess
    /\ project_name = NameOf(argv)
    /\ base_path = Path(NameOf(argv))
    /\ pc = "wf_mkdir"
    /\ wf \in [directory : DirectoryArgs, filename : FilenameArgs,
               content : ContentArgs, file_path : { <<>> }]
    /\ kont = "caller"
    /\ run = 1
    /\ prevDirs = dirs
    /\ prevFiles = files
    /\ service_name = <<>>
    /\ service_main = NoMain

\* the caller calls _write_file again for the same file
call_again ==
    /\ pc \in {"returned", "raised"}
    /\ run < MaxCalls
    /\ \E c \in ContentArgs : wf' = [wf EXCEPT !.content = c, !.file_path = <<>>]
    /\ run' = run + 1
    /\ prevDirs' = dirs
    /\ prevFiles' = files
    /\ pc' = "wf_mkdir"
    /\ exc' = ""
    /\ wrote' = <<>>
    /\ failed' = <<>>
    /\ UNCHANGED << argv, project_name, base_path, dirs, files, denied, faultKind,
                    dirIdx, unit, pending, k, kont, stdout, exitStatus, invoked >>
    /\ UNCHANGED << service_name, service_main >>

NextWriteFile ==
    \/ _write_file_mkdir
    \/ _write_file_open
    \/ call_again

SpecWriteFile == InitWriteFile /\ [][NextWriteFile]_vars

(***************************************************************************)
(* _get_service_main called directly.  Here a str is the sequence of its   *)
(* characters; the literal text of the template around an interpolation is *)
(* kept as one element.                                                    *)
(***************************************************************************)
MaxNameLen == 3

LowerCase ==
    <<"a", "b", "c", "d", "e", "f", "g", "h", "i", "j", "k", "l", "m", "n", "o", "p", "q", "r", "s", "t", "u", "v", "w", "x", "y", "z">>

UpperCase ==
    <<"A", "B", "C", "D", "E", "F", "G", "H", "I", "J", "K", "L", "M", "N", "O", "P", "Q", "R", "S", "T", "U", "V", "W", "X", "Y", "Z">>

IsLower(c) == \E i \in 1..Len(LowerCase) : LowerCase[i] = c

IsUpper(c) == \E i \in 1..Len(UpperCase) : UpperCase[i] = c

\* the character has a case
IsCased(c) == IsLower(c) \/ IsUpper(c)

\* str.upper() of one character
upper(c) ==
    IF IsLower(c) THEN UpperCase[CHOOSE i \in 1..Len(LowerCase) : LowerCase[i] = c]
    ELSE c

\* str.lower() of one character
lower(c) ==
    IF IsUpper(c) THEN LowerCase[CHOOSE i \in 1..Len(UpperCase) : UpperCase[i] = c]
    ELSE c

\* str.replace(old, new) for one-character old and new
replace(s, old, new) == [i \in 1..Len(s) |-> IF s[i] = old THEN new ELSE s[i]]

\* str.capitalize(): the first character upper case, the others lower case
title_capitalize(s) == [i \in 1..Len(s) |-> IF i = 1 THEN upper(s[i]) ELSE lower(s[i])]

\* str.title(): a cased character is made upper case when the character
\* before it is not cased, lower case otherwise
title(s) ==
    [i \in 1..Len(s) |->
        IF i > 1 /\ IsCased(s[i - 1]) THEN lower(s[i]) ELSE upper(s[i])]

\* the interpolated parts of the f-string of _get_service_main
_get_service_main(name) ==
    LET display == title(replace(name, "-", " "))
    IN  [docstring |-> display \o <<" Service Main Application">>,
         title |-> display \o <<" Service">>,
         description |-> <<"PRISM Carbon Registry - ">> \o display \o <<" Service">>,
         root_message |-> display \o <<" Service is running">>,
         health_check |-> [status |-> <<"healthy">>, service |-> name]]

\* the characters of a service identifier of the list of _create_services
Chars(svc) ==
    CASE svc = "api-gateway" ->
           <<"a", "p", "i", "-", "g", "a", "t", "e", "w", "a", "y">>
      [] svc = "user-service" ->
           <<"u", "s", "e", "r", "-", "s", "e", "r", "v", "i", "c", "e">>
      [] svc = "project-service" ->
           <<"p", "r", "o", "j", "e", "c", "t", "-", "s", "e", "r", "v", "i", "c", "e">>
      [] svc = "validation-service" ->
           <<"v", "a", "l", "i", "d", "a", "t", "i", "o", "n", "-", "s", "e", "r", "v", "i", "c", "e">>
      [] svc = "registry-service" ->
           <<"r", "e", "g", "i", "s", "t", "r", "y", "-", "s", "e", "r", "v", "i", "c", "e">>
      [] svc = "exchange-service" ->
           <<"e", "x", "c", "h", "a", "n", "g", "e", "-", "s", "e", "r", "v", "i", "c", "e">>
      [] svc = "dmrv-service" ->
           <<"d", "m", "r", "v", "-", "s", "e", "r", "v", "i", "c", "e">>
      [] svc = "governance-service" ->
           <<"g", "o", "v", "e", "r", "n", "a", "n", "c", "e", "-", "s", "e", "r", "v", "i", "c", "e">>
      [] svc = "notification-service" ->
           <<"n", "o", "t", "i", "f", "i", "c", "a", "t", "i", "o", "n", "-", "s", "e", "r", "v", "i", "c", "e">>
      [] svc = "file-service" ->
           <<"f", "i", "l", "e", "-", "s", "e", "r", "v", "i", "c", "e">>

NameAlphabet == { "a", "B", "-", " ", "1" }

\* the service identifiers of the list and every short string of the alphabet
ServiceNameArgs ==
    { Chars(services[i]) : i \in 1..Len(services) }
    \cup UNION { [1..n -> NameAlphabet] : n \in 0..MaxNameLen }

InitServiceMain ==
    /\ argv \in ArgvChoices
    /\ dirs = { <<>> }
    /\ files = NoFiles
    /\ denied = {}
    /\ faultKind = "open"
    /\ InitProcess
    /\ project_name = NameOf(argv)
    /\ base_path = Path(NameOf(argv))
    /\ pc = "call_service_main"
    /\ wf = NoCall
    /\ kont = "caller"
    /\ run = 1
    /\ prevDirs = dirs
    /\ prevFiles = files
    /\ service_name \in ServiceNameArgs
    /\ service_main = NoMain

\* the call self._get_service_main(service_name) returns
call_service_main ==
    /\ pc = "call_service_main"
    /\ service_main' = _get_service_main(service_name)
    /\ pc' = "service_main_returned"
    /\ UNCHANGED << argv, project_name, base_path, dirs, files, denied, faultKind,
                    dirIdx, unit, pending, k, wf, kont, exc, stdout, exitStatus, run,
                    wrote, failed, invoked, prevDirs, prevFiles, service_name >>

NextServiceMain == call_service_main

SpecServiceMain == InitServiceMain /\ [][NextServiceMain]_vars

(***************************************************************************)
(* The body of a write loop up to the path _write_file opens, applied to   *)
(* one declared key of one group, without any filesystem operation.        *)
(***************************************************************************)
\* the keys of the dict a group iterates over, in order
DeclaredKeys(u) ==
    LET d == FilesOf(u)
    IN  [j \in 1..Len(d) |-> [key |-> d[j].key, content |-> <<>>]]

InitSplitPath ==
    /\ argv \in ArgvChoices
    /\ dirs = { <<>> }
    /\ files = NoFiles
    /\ denied = {}
    /\ faultKind = "open"
    /\ dirIdx = 1
    /\ unit \in 1..Len(Units)
    /\ pending = DeclaredKeys(Units[unit])
    /\ k \in 1..Len(pending)
    /\ exc = ""
    /\ stdout = <<>>
    /\ exitStatus = -1
    /\ wrote = <<>>
    /\ failed = <<>>
    /\ invoked = <<>>
    /\ project_name = NameOf(argv)
    /\ base_path = Path(NameOf(argv))
    /\ pc = "split_path"
    /\ wf = NoCall
    /\ kont = "caller"
    /\ run = 1
    /\ prevDirs = dirs
    /\ prevFiles = files
    /\ service_name = <<>>
    /\ service_main = NoMain

\* one iteration of a write loop up to the first statement of _write_file:
\* split the key, join the directory, compute file_path
split_path ==
    /\ pc = "split_path"
    /\ LET a == Args(Units[unit], pending[k])
       IN  wf' = [directory |-> a.directory, filename |-> a.filename,
                  content |-> a.content,
                  file_path |-> FilePath(base_path, a.directory, a.filename)]
    /\ pc' = "path_joined"
    /\ UNCHANGED << argv, project_name, base_path, dirs, files, denied, faultKind,
                    dirIdx, unit, pending, k, kont, exc, stdout, exitStatus, run,
                    wrote, failed, invoked, prevDirs, prevFiles, service_name,
                    service_main >>

NextSplitPath == split_path

SpecSplitPath == InitSplitPath /\ [][NextSplitPath]_vars

(***************************************************************************)
(* Properties.                                                             *)
(***************************************************************************)
Range(s) == { s[i] : i \in 1..Len(s) }

Printed(m) == \E i \in 1..Len(stdout) : stdout[i].msg = m

ErrorCount == Cardinality({ i \in 1..Len(stdout) : stdout[i].msg = "error" })

PlanPaths ==
    LET plan == Plan(base_path)
    IN  { plan[i].path : i \in 1..Len(plan) }

DirPath(i) == PathJoin(base_path, directories[i])

DirsDone == pc \notin {"main", "create_structure"} /\ dirIdx > Len(directories)

Prefixes(path) == { SubSeq(path, 1, n) : n \in 0..Len(path) }

C2_DirectoriesBeforeFiles ==
    (wrote # <<>> \/ pc \in {"wf_mkdir", "wf_open"}) => dirIdx > Len(directories)

C2_Witness ==
    /\ pc = "wf_open"
    /\ Len(wrote) = 3
    /\ dirIdx = Len(directories) + 1

\* C3 as stated: an invocation in which no filesystem operation failed ends
\* with the completion banner printed and exit status 0.
C3_CleanRunReachesBanner ==
    (pc = "exit" /\ failed = <<>>) => (Printed("success") /\ exitStatus = 0)

\* C4 as stated: when an invocation in which no filesystem operation failed
\* has ended, every file of every group's dict exists under the root with
\* the content its producer returned.
C4_Completeness ==
    (pc = "exit" /\ failed = <<>>)
    => LET plan == Plan(base_path)
       IN  \A i \in 1..Len(plan) :
               plan[i].path \in DOMAIN files /\ files[plan[i].path] = plan[i].content

\* C5: once the loop of _create_directories is over, every directory of the
\* list exists under the root, also the ones no file is written to, and this
\* stays so to the end of the invocation whatever the file writes do.
C5_DirectoryCoverage ==
    DirsDone => \A i \in 1..Len(directories) : DirPath(i) \in dirs

C5_Witness ==
    /\ pc = "exit"
    /\ failed # <<>>
    /\ dirIdx > Len(directories)
    /\ PathJoin(base_path, <<"tools", "/", "generators">>) \in dirs
    /\ \A q \in PlanPaths : Parent(q) # PathJoin(base_path, <<"tools", "/", "generators">>)

\* C6: _create_directories never fails on a directory that exists: when its
\* mkdir raises, the target is not a directory, and the target or one of its
\* ancestors is refused by the environment or is a regular file.
C6_ExistingDirectoryIsNoError ==
    (exc = "OSError" /\ dirIdx <= Len(directories))
    => /\ DirPath(dirIdx) \notin dirs
       /\ \E q \in Prefixes(DirPath(dirIdx)) : q \in denied \/ q \in DOMAIN files

C6_Witness ==
    /\ run = 2
    /\ DirsDone
    /\ \A i \in 1..Len(directories) : DirPath(i) \in prevDirs

\* C7: when a second invocation with the same project name ends, the tree
\* holds exactly the directories and the files, with the contents, it held
\* when the first invocation ended.
C7_Idempotence ==
    (run >= 2 /\ pc = "exit") => (dirs = prevDirs /\ files = prevFiles)

C7_Witness ==
    /\ run = 2
    /\ pc = "exit"
    /\ denied = {}
    /\ Len(wrote) = Len(root_files)
    /\ \A q \in Range(wrote) : q \in DOMAIN prevFiles

\* C8: _write_file opens the file only when its parent directory exists,
\* whether or not the directory is in the directory list, and when it returns
\* the file exists at base_path / directory / filename.
C8_ParentCreatedBeforeOpen ==
    /\ pc = "wf_open" => Parent(wf.file_path) \in dirs
    /\ pc = "returned"
       => /\ wf.file_path = FilePath(base_path, wf.directory, wf.filename)
          /\ wf.file_path \in DOMAIN files
          /\ Parent(wf.file_path) \in dirs

C8_Witness ==
    /\ pc = "returned"
    /\ wf.directory \notin Range(directories)
    /\ Len(wf.directory) > 1
    /\ Parent(wf.file_path) \notin prevDirs
    /\ Parent(Parent(wf.file_path)) \notin prevDirs

\* C9: when _write_file returns, the files are the files the call found with
\* the file at the target path holding exactly the content passed: nothing of
\* the old content is kept and no other file appears or changes.
C9_LastWriteWins ==
    pc = "returned" => files = Put(prevFiles, wf.file_path, wf.content)

C9_Witness ==
    /\ pc = "returned"
    /\ wf.file_path \in DOMAIN prevFiles
    /\ Len(prevFiles[wf.file_path]) > 0
    /\ prevFiles[wf.file_path] # wf.content

\* C10: when the mkdir of the project root raises, the invocation stops
\* there: it creates no directory, writes no file, prints no banner, handles
\* the one error and ends with exit status 1.  (Project names of one path
\* component.)
C10_RootFailureAborts ==
    (failed # <<>> /\ failed[1] = base_path)
    => /\ pc \in {"except", "exit"}
       /\ Len(failed) = 1
       /\ dirs = prevDirs
       /\ files = prevFiles
       /\ wrote = <<>>
       /\ ~Printed("success")
       /\ pc = "exit" => exitStatus = 1

C10_Witness ==
    /\ pc = "exit"
    /\ failed = << base_path >>
    /\ base_path \in DOMAIN files
    /\ exitStatus = 1

\* a run whose directory phase completed and in which a file write failed
FileWriteFailed == DirsDone /\ exc = "OSError" /\ failed # <<>>

MissingPaths(base) ==
    UNION { { FilePath(base, Args(Units[n], [key |-> e.key, content |-> <<>>]).directory,
                       Args(Units[n], [key |-> e.key, content |-> <<>>]).filename) :
              e \in { x \in Range(Entries(Units[n])) :
                        x.kind # "lit" /\ x.val \notin Defined } } :
            n \in 1..Len(Units) }

\* C12: a group whose dict names a producer the class does not define writes
\* none of its files: the run aborts with the error printed, no banner and
\* exit status 1, and no file is written or changed at the path of a key
\* whose producer is missing.
C12_MissingProducerFailsLoudly ==
    /\ pc \in {"write", "wf_mkdir", "wf_open"}
       => \A c \in Range(Calls(Units[unit])) : c \in Defined
    /\ (pc = "exit" /\ exc = "AttributeError")
       => /\ exitStatus = 1
          /\ stdout[Len(stdout)] = Msg("error", 0)
          /\ ~Printed("success")
    /\ pc = "exit"
       => \A q \in MissingPaths(base_path) :
             /\ q \notin Range(wrote)
             /\ q \in DOMAIN files => (q \in DOMAIN prevFiles /\ files[q] = prevFiles[q])

C12_Witness ==
    /\ pc = "exit"
    /\ exc = "AttributeError"
    /\ exitStatus = 1
    /\ unit = 2
    /\ Len(wrote) = Len(root_files)
    /\ LET q == PathJoin(base_path, <<"packages", "/", "common", "/", "messaging", "/",
                                      "event_bus.py">>)
       IN  /\ q \in MissingPaths(base_path)
           /\ Parent(q) \in dirs
           /\ q \notin DOMAIN files

\* C13 as stated: no content producer is invoked once a directory has been
\* created or a file written by the run.
C13_PlanThenExecute ==
    [][(invoked' # invoked /\ run' = run)
       => (dirs = prevDirs /\ files = prevFiles /\ wrote = <<>>)]_vars

\* C13 amended: the plan is built group by group while the run executes: a
\* step that invokes content producers invokes producers of the current
\* group only, after the directory loop has completed and its count has been
\* printed, and when exactly the files of the groups before it have been
\* written.
C13_ProducersGroupByGroup ==
    [][(invoked' # invoked /\ run' = run)
       => /\ pc = "build"
          /\ dirIdx > Len(directories)
          /\ Printed("created_directories")
          /\ \E n \in 1..Len(Calls(Units[unit])) :
                invoked' = invoked \o SubSeq(Calls(Units[unit]), 1, n)
          /\ LET before == PlanRange(base_path, 1, unit - 1)
             IN  wrote = [i \in 1..Len(before) |-> before[i].path]]_vars

C13_Witness ==
    /\ pc = "except"
    /\ exc = "AttributeError"
    /\ unit = 2
    /\ Len(invoked) > Len(Calls(Units[1]))
    /\ Len(wrote) = Len(root_files)
    /\ dirs # prevDirs
    /\ files # prevFiles

\* C14: when _write_file cannot create the parent directory of its file, the
\* call ends by raising the OSError to its caller: the file is not opened,
\* no file is created or changed, and the call never returns normally.
C14_ParentFailureSurfaces ==
    (pc \in {"returned", "raised"} /\ Parent(wf.file_path) \notin dirs)
    => /\ pc = "raised"
       /\ exc = "OSError"
       /\ failed = << wf.file_path >>
       /\ wrote = <<>>
       /\ files = prevFiles
       /\ wf.file_path \notin DOMAIN files

C14_Witness ==
    /\ pc = "raised"
    /\ wf.directory = <<"packages", "/", "common">>
    /\ PathJoin(base_path, <<"packages">>) \in DOMAIN files
    /\ Parent(wf.file_path) \notin dirs
    /\ failed = << wf.file_path >>
    /\ files = prevFiles

NoDuplicates(s) == \A i, j \in 1..Len(s) : s[i] = s[j] => i = j

\* C16: within one invocation each entry of the directory list is taken once
\* by the loop, in list order, and each file path is opened at most once; the
\* first failed operation is the only one and nothing is created, written or
\* attempted after it; the directory list names no directory twice and no
\* two groups or services write the same file path.
C16_NoRetry ==
    /\ [](/\ Len(failed) <= 1
          /\ NoDuplicates(wrote \o failed)
          /\ pc = "exit"
             => /\ NoDuplicates(directories)
                /\ LET plan == Plan(base_path)
                   IN  NoDuplicates([i \in 1..Len(plan) |-> plan[i].path]))
    /\ [][run' = run
          => /\ (pc = "mkdir" /\ pc' = "mkdir") => dirIdx' = dirIdx + 1
             /\ (pc = "wf_open" /\ pc' = "write") => k' = k + 1
             /\ failed # <<>>
                => /\ pc \in {"except", "exit"}
                   /\ UNCHANGED << dirs, files, wrote, failed, dirIdx, k, unit >>]_vars

C16_Witness ==
    /\ pc = "exit"
    /\ dirIdx <= Len(directories)
    /\ directories[dirIdx] = <<"packages", "/", "common", "/", "models">>
    /\ failed = << DirPath(dirIdx) >>
    /\ DirPath(dirIdx) \notin dirs
    /\ wrote = <<>>

\* the directories the list stands for, relative to the project root: every
\* entry and its ancestors
RelDirs == UNION { Prefixes(PathJoin(<<>>, directories[i])) : i \in 1..Len(directories) }

\* C17: without an argument the root is named prism-carbon-registry, with
\* the argument my-registry it is named my-registry; whatever the name, the
\* directories a completed directory loop leaves below the root are those of
\* the list, and the files the run has written are, relative to the root, the
\* files of the plan computed without any root.
C17_DefaultNaming ==
    /\ pc # "main"
       => /\ argv = <<>> => base_path = << <<"prism-carbon-registry">> >>
          /\ argv = << <<"my-registry">> >> => base_path = << <<"my-registry">> >>
          /\ project_name = base_path[1]
    /\ pc = "exit"
       => /\ \A d \in (dirs \ prevDirs) : SubSeq(d, 1, 1) = base_path
          /\ DirsDone
             => /\ \A r \in RelDirs : base_path \o r \in dirs
                /\ \A d \in (dirs \ prevDirs) : Tail(d) \in RelDirs
          /\ LET rel == Plan(<<>>)
             IN  /\ Len(wrote) <= Len(rel)
                 /\ \A i \in 1..Len(wrote) : wrote[i] = base_path \o rel[i].path

C17_Witness ==
    /\ pc = "exit"
    /\ argv = << <<"my-registry">> >>
    /\ prevDirs = { <<>> }
    /\ << <<"my-registry">> >> \in dirs
    /\ << <<"my-registry">>, <<"README.md">> >> \in DOMAIN files
    /\ Len(wrote) = Len(root_files)
    /\ Cardinality(dirs) = Cardinality(RelDirs) + 1

\* C18: the directories the directory loop ensures are those of the literal
\* list under the root and nothing else, whatever the run, the project name
\* and the tree found: when the loop has completed, before any producer has
\* been invoked and any file written, the directories are the ones found
\* plus every list entry with its ancestors, including entries that will
\* hold no file.
C18_FixedDirectoryList ==
    (pc = "build" /\ unit = 1)
    => /\ invoked = <<>>
       /\ wrote = <<>>
       /\ files = prevFiles
       /\ dirs = prevDirs \cup { base_path \o r : r \in RelDirs }

C18_Witness ==
    /\ pc = "build"
    /\ unit = 1
    /\ run = 2
    /\ argv = << <<"my-registry">> >>
    /\ dirs = prevDirs
    /\ Cardinality(dirs) = Cardinality(RelDirs) + 1
    /\ \E r \in RelDirs : r \notin PlannedParents /\ base_path \o r \in dirs

\* the sequence t occurs in the sequence s
Contains(s, t) == \E i \in 0..(Len(s) - Len(t)) : SubSeq(s, i + 1, i + Len(t)) = t

UserService == <<"U", "s", "e", "r", " ", "S", "e", "r", "v", "i", "c", "e">>

\* C19 as stated: for user-service the display form User Service is in the
\* title and in the fields of the health check, whose payload also has the
\* raw identifier.
C19_DisplayFormInTitleAndHealth ==
    (pc = "service_main_returned" /\ service_name = Chars("user-service"))
    => /\ Contains(service_main.title, UserService)
       /\ \/ Contains(service_main.health_check.status, UserService)
          \/ Contains(service_main.health_check.service, UserService)
       /\ service_main.health_check.service = Chars("user-service")

\* C19 amended: the display form (each hyphen a space, each word with an
\* upper-case first letter and lower-case rest, other characters kept) is in
\* the docstring, the title, the description and the message of the root
\* endpoint; the payload of the health check has the status and the raw
\* identifier only.  For user-service the display form is User Service and
\* the health check has user-service and no display form.
C19_DisplayFormInTitleAndRoot ==
    pc = "service_main_returned"
    => LET display == Front(service_main.title)
       IN  /\ service_main.title = display \o <<" Service">>
           /\ service_main.docstring = display \o <<" Service Main Application">>
           /\ service_main.description
                = <<"PRISM Carbon Registry - ">> \o display \o <<" Service">>
           /\ service_main.root_message = display \o <<" Service is running">>
           /\ service_main.health_check
                = [status |-> <<"healthy">>, service |-> service_name]
           /\ Len(display) = Len(service_name)
           /\ \A i \in 1..Len(display) :
                 LET c == service_name[i]
                 IN  /\ c = "-" => display[i] = " "
                     /\ (c # "-" /\ ~IsCased(c)) => display[i] = c
                     /\ IsCased(c)
                        => /\ lower(display[i]) = lower(c)
                           /\ IF i = 1 \/ ~IsCased(service_name[i - 1])
                              THEN IsUpper(display[i]) ELSE IsLower(display[i])
           /\ service_name = Chars("user-service")
              => /\ display = UserService
                 /\ ~Contains(service_main.health_check.status, UserService)
                 /\ ~Contains(service_main.health_check.service, UserService)

C19_Witness ==
    /\ pc = "service_main_returned"
    /\ service_name = Chars("user-service")
    /\ service_main.title = UserService \o <<" Service">>
    /\ service_main.root_message = UserService \o <<" Service is running">>
    /\ service_main.health_check.service = Chars("user-service")

\* C20: when the directory count has just been printed, every directory of
\* the list exists and the number printed is the number of directories the
\* invocation created.
C20_ReportedCountIsCreatedCount ==
    (pc = "build" /\ unit = 1)
    => /\ \A i \in 1..Len(directories) : DirPath(i) \in dirs
       /\ stdout[Len(stdout)] = Msg("created_directories", Cardinality(dirs \ prevDirs))

\* the place of a group in the order root files, shared packages, services,
\* frontend, infrastructure, tools, documentation, tests, CI workflows
GroupRank(name) ==
    CASE name = "root_files" -> 1
      [] name = "shared_packages" -> 2
      [] name = "service" -> 3
      [] name = "frontend" -> 4
      [] name = "infrastructure" -> 5
      [] name = "tools" -> 6
      [] name = "documentation" -> 7
      [] name = "tests" -> 8
      [] name \in {"github_workflows", "github_extra"} -> 9

\* the paths of the files the groups lo..hi write, in order
PathsOf(lo, hi) ==
    LET p == PlanRange(base_path, lo, hi)
    IN  [i \in 1..Len(p) |-> p[i].path]

\* C21: create_structure takes the groups in the order root files, shared
\* packages, services, frontend, infrastructure, tools, documentation, tests,
\* CI workflows, after the directory loop; when a group is entered every file
\* of every earlier group has been written and no other, inside a group the
\* files written are the first ones of its loop, and the banner is printed
\* only when the last group has been written.
C21_GroupOrder ==
    /\ pc \in {"build", "write"}
       => /\ DirsDone
          /\ \A i \in 1..unit : \A j \in i..unit :
                GroupRank(Units[i].name) <= GroupRank(Units[j].name)
          /\ { GroupRank(Units[i].name) : i \in 1..Len(Units) } = 1..9
    /\ pc = "build" => wrote = PathsOf(1, unit - 1)
    /\ pc = "write"
       => wrote = PathsOf(1, unit - 1) \o SubSeq(PathsOf(unit, unit), 1, k - 1)
    /\ Printed("success")
       => /\ unit = Len(Units)
          /\ wrote = PathsOf(1, Len(Units))

C21_Witness ==
    /\ pc = "build"
    /\ unit = 2
    /\ Units[1].name = "root_files"
    /\ Units[2].name = "shared_packages"
    /\ Len(wrote) = Len(root_files)
    /\ Range(wrote) \subseteq DOMAIN files
    /\ ~Printed("success")

\* the path of a file of a service, from its key in the dict of _create_service
ServicePath(svc, key) == PathJoin(base_path, <<"services", "/", svc, "/">> \o key)

\* C22: a run in which no filesystem operation failed has written, for each
\* service of the list, app/main.py, Dockerfile and requirements.txt under
\* services/<identifier>/, each once and with the content its producer gives
\* for that identifier.
C22_ServiceFilesWritten ==
    (pc = "exit" /\ failed = <<>>)
    => \A i \in 1..Len(services) :
          \A e \in { x \in Range(service_files) :
                       x.val \in {"_get_service_main", "_get_service_dockerfile",
                                  "_get_service_requirements"} } :
             LET q == ServicePath(services[i], e.key)
             IN  /\ Cardinality({ n \in 1..Len(wrote) : wrote[n] = q }) = 1
                 /\ q \in DOMAIN files
                 /\ files[q] = << e.val, services[i] >>

\* the path is the project root or lies below it
UnderRoot(path) == Len(base_path) > 0 /\ SubSeq(path, 1, Len(base_path)) = base_path

\* the files an invocation has created or whose content it has changed
Touched ==
    { q \in DOMAIN files : q \notin DOMAIN prevFiles \/ files[q] # prevFiles[q] }

\* C23: every directory an invocation has created, every file it has
\* created, changed, written or failed on is the directory named after the
\* project in the current working directory or lies below it.
C23_ConfinedToRoot ==
    /\ \A d \in (dirs \ prevDirs) : UnderRoot(d)
    /\ \A q \in Touched : UnderRoot(q) /\ Len(q) > Len(base_path)
    /\ \A q \in Range(wrote \o failed) : UnderRoot(q)
    /\ pc # "main" => base_path = << NameOf(argv) >>

C23_Witness ==
    /\ pc = "exit"
    /\ argv = <<>>
    /\ Cardinality(dirs \ prevDirs) > Len(directories)
    /\ Cardinality(Touched) = Len(root_files)
    /\ \A d \in (dirs \ prevDirs) : d[1] = DEFAULT_PROJECT_NAME
    /\ \A q \in Touched : q[1] = DEFAULT_PROJECT_NAME

\* C24: in an invocation no exception leaves run: an exception raised by the
\* directory loop, by the evaluation of a dict or by a file write is handled
\* at once, nothing is created, written or produced after it, the error is
\* printed once as the last line and the process ends with status 1; the
\* process ends with status 0 exactly when no exception was raised.
C24_ExitStatusTellsException ==
    /\ [](/\ pc # "raised"
          /\ exc # "" => pc \in {"except", "exit"}
          /\ pc = "exit"
             => /\ exitStatus \in {0, 1}
                /\ exitStatus = 1 <=> exc # ""
                /\ exitStatus = 1
                   => (ErrorCount = 1 /\ stdout[Len(stdout)] = Msg("error", 0))
                /\ exitStatus = 0 => (ErrorCount = 0 /\ failed = <<>>)
          /\ pc # "exit" => exitStatus = -1)
    /\ [][pc = "except"
          => (pc' = "exit" /\ UNCHANGED << dirs, files, wrote, failed, invoked, exc >>)]_vars

C24_Witness ==
    /\ pc = "exit"
    /\ exc = "OSError"
    /\ dirIdx > 1
    /\ dirIdx <= Len(directories)
    /\ SubSeq(directories[dirIdx], 1, 1) = <<"docs">>
    /\ exitStatus = 1
    /\ ErrorCount = 1

\* C25: the banner, the location and the next steps are in the output only
\* when the directory loop and the write loop of the last group have
\* completed and no exception was raised; an invocation in which an
\* exception was raised has printed none of them.
C25_BannerOnlyAfterCompletion ==
    /\ (Printed("success") \/ Printed("location") \/ Printed("next_steps"))
       => /\ pc = "exit"
          /\ exc = ""
          /\ failed = <<>>
          /\ dirIdx > Len(directories)
          /\ unit = Len(Units)
          /\ k > Len(pending)
          /\ exitStatus = 0
    /\ (exc # "" \/ pc # "exit")
       => /\ ~Printed("success")
          /\ ~Printed("location")
          /\ ~Printed("next_steps")

C25_Witness ==
    /\ pc = "exit"
    /\ exc = "AttributeError"
    /\ unit < Len(Units)
    /\ Printed("created_directories")
    /\ Len(stdout) = 3
    /\ ~Printed("success")
    /\ ~Printed("next_steps")

\* C26: while a group writes its files every producer its dict names has
\* been called, last and in dict order; when the evaluation of the dict of a
\* group has raised, no file of that group has been written or changed and
\* the files written are exactly those of the groups before it, all on disk.
C26_GroupProducedBeforeWritten ==
    /\ pc \in {"write", "wf_mkdir", "wf_open"}
       => LET calls == Calls(Units[unit])
          IN  /\ Len(invoked) >= Len(calls)
              /\ SubSeq(invoked, Len(invoked) - Len(calls) + 1, Len(invoked)) = calls
              /\ \A i \in 1..Len(calls) : calls[i] \in Defined
    /\ exc = "AttributeError"
       => /\ wrote = PathsOf(1, unit - 1)
          /\ Range(wrote) \subseteq DOMAIN files
          /\ \A q \in Range(PathsOf(unit, unit)) :
                /\ q \notin Range(wrote)
                /\ q \in DOMAIN files => (q \in DOMAIN prevFiles /\ files[q] = prevFiles[q])

C26_Witness ==
    /\ pc = "except"
    /\ exc = "AttributeError"
    /\ unit = 2
    /\ prevFiles = NoFiles
    /\ DOMAIN files = Range(PathsOf(1, 1))
    /\ Len(PathsOf(2, 2)) = Len(common_files) + Len(blockchain_files)
    /\ Parent(PathsOf(2, 2)[1]) \in dirs

\* C27: the handling of an exception changes no directory and no file; when
\* an invocation has ended on an exception the directories found and the
\* directories of the completed loop iterations exist, and every file written
\* before the failing step is on disk with the content written.
C27_NoRollback ==
    /\ [][pc = "except" => UNCHANGED << dirs, files >>]_vars
    /\ []((pc = "exit" /\ exc # "")
          => /\ prevDirs \subseteq dirs
             /\ \A i \in 1..(dirIdx - 1) : DirPath(i) \in dirs
             /\ LET p == PlanRange(base_path, 1, unit)
                IN  \A n \in 1..Len(wrote) :
                       /\ wrote[n] = p[n].path
                       /\ wrote[n] \in DOMAIN files
                       /\ files[wrote[n]] = p[n].content)

C27_Witness ==
    /\ pc = "exit"
    /\ exitStatus = 1
    /\ exc = "OSError"
    /\ wrote # <<>>
    /\ failed # <<>>
    /\ prevDirs = { <<>> }
    /\ Cardinality(dirs) > Len(directories)
    /\ \A q \in Range(wrote) : q \in DOMAIN files

\* C28: no step removes a directory or a file; a step of the directory loop
\* or the mkdir of _write_file changes no file and adds only the target and
\* its ancestors; the open of _write_file adds no directory and changes at
\* most the file at file_path; no other step touches the filesystem; when an
\* invocation has ended, every file found whose path is not in the plan has
\* the content found.
C28_Frame ==
    /\ [][/\ dirs \subseteq dirs'
          /\ DOMAIN files \subseteq DOMAIN files'
          /\ pc = "mkdir" /\ dirIdx <= Len(directories)
             => /\ files' = files
                /\ (dirs' \ dirs) \subseteq Prefixes(DirPath(dirIdx))
          /\ pc = "wf_mkdir"
             => /\ files' = files
                /\ (dirs' \ dirs) \subseteq Prefixes(Parent(wf'.file_path))
          /\ pc = "wf_open"
             => /\ dirs' = dirs
                /\ \A q \in DOMAIN files' : q # wf.file_path
                      => (q \in DOMAIN files /\ files'[q] = files[q])
          /\ ~(pc = "mkdir" /\ dirIdx <= Len(directories)) /\ pc \notin {"wf_mkdir", "wf_open"}
             => (dirs' = dirs /\ files' = files)]_vars
    /\ [](pc = "exit"
          => LET planned == PlanPaths
             IN  \A q \in DOMAIN prevFiles :
                    q \notin planned => (q \in DOMAIN files /\ files[q] = prevFiles[q]))

C28_Witness ==
    /\ pc = "exit"
    /\ PathJoin(base_path, <<"notes.txt">>) \in DOMAIN prevFiles
    /\ files[PathJoin(base_path, <<"notes.txt">>)] = <<"notes">>
    /\ prevFiles[PathJoin(base_path, <<"README.md">>)] = OldContent
    /\ files[PathJoin(base_path, <<"README.md">>)] # OldContent
    /\ Len(wrote) = Len(root_files)

\* the directory a group writes under, as the claim names it: a str
GroupDirectory(u) ==
    CASE u.name = "service" -> <<"services", "/", u.svc>>
      [] u.name = "frontend" -> <<"frontend", "/", "web-app">>
      [] u.name = "infrastructure" -> <<"infrastructure">>
      [] u.name = "tools" -> <<"tools">>
      [] u.name = "documentation" -> <<"docs">>
      [] u.name = "tests" -> <<"tests">>
      [] u.name = "github_workflows" -> <<".github", "/", "workflows">>
      [] u.name = "github_extra" -> <<".github">>
      [] OTHER -> <<>>

\* C29: for every declared key of every group, the path _write_file opens is
\* the root, then the parts of the directory of the group, then the parts of
\* the key as declared; the file name passed is the last part of the key and
\* the directory passed is what precedes it; a key without "/" in a group
\* without directory is passed with the empty directory and opened directly
\* under the root.
C29_PathRoundTrip ==
    pc = "path_joined"
    => LET u == Units[unit]
           key == pending[k].key
           whole == IF GroupDirectory(u) = <<>> THEN key
                    ELSE GroupDirectory(u) \o <<"/">> \o key
       IN  /\ wf.file_path = base_path \o Path(whole)
           /\ Len(wf.file_path) = Len(base_path) + Len(Path(GroupDirectory(u)))
                                  + Len(Path(key))
           /\ \A i \in 1..Len(wf.filename) : wf.filename[i] # "/"
           /\ << wf.filename >> = SubSeq(wf.file_path, Len(wf.file_path), Len(wf.file_path))
           /\ Path(wf.directory) = SubSeq(wf.file_path, Len(base_path) + 1,
                                          Len(wf.file_path) - 1)
           /\ (GroupDirectory(u) = <<>> /\ \A i \in 1..Len(key) : key[i] # "/")
              => /\ wf.directory = <<>>
                 /\ wf.file_path = base_path \o << key >>

C29_Witness ==
    /\ pc = "path_joined"
    /\ Units[unit] = Group("service", "user-service")
    /\ pending[k].key = <<"app", "/", "main.py">>
    /\ wf.directory = <<"services", "/", "user-service", "/", "app">>
    /\ wf.filename = <<"main.py">>
    /\ wf.file_path = base_path \o << <<"services">>, <<"user-service">>, <<"app">>,
                                      <<"main.py">> >>

====
